---- MODULE Spec2Model ----
(***************************************************************************)
(* A model of the twsearch scramble core: move-table generation            *)
(* (SearchGenerators), the canonical-sequence state machine, the           *)
(* iterative-deepening search (IDFSearch), the 3x3x3 two-phase and the     *)
(* 4x4x4 four-phase drivers and the process-wide scramble entry points.    *)
(*                                                                         *)
(* The puzzle definitions (orbits, identity, move -> transformation) are   *)
(* external collaborators of the core.  The searches are generic over      *)
(* them.  For the 3x3x3 drivers the model uses a small puzzle that has the *)
(* shape the drivers rely on: six face moves U L F R B D, quarter turns of *)
(* order 4, opposite faces commuting, and a subgroup                       *)
(* G1 = <U, L2, F2, R2, B2, D> that is exactly the set of patterns whose   *)
(* remapping through the phase-1 target equals that target.  For the       *)
(* 4x4x4 drivers it uses the WINGS and CENTERS orbits of the 4x4x4 in      *)
(* Speffz order, with the face and wide turns of the cube.                 *)
(***************************************************************************)
EXTENDS Integers, Sequences, FiniteSets, TLC

(***************************************************************************)
(* Bounds of the model.                                                    *)
(***************************************************************************)
\* Deepest pass the model lets a search without max_depth run.
DepthCap == 4

(***************************************************************************)
(* Patterns and transformations, packed as in PackedKPattern: the orbits   *)
(* one after the other, a piece stored as its index in its orbit.          *)
(***************************************************************************)
OriMod == 2

\* The packed bytes: the function as a sequence of its n values.
Packed(f, n) == SubSeq(f, 1, n)

ZeroOrientation(n) == [i \in 1..n |-> 0]

\* A transformation: permutation[i] is the position whose content moves to i.
MkTransformation(perm) ==
    [permutation |-> perm, orientation_delta |-> ZeroOrientation(Len(perm))]

\* a then b
transformation_compose(a, b) ==
    LET n == Len(b.permutation)
    IN  [permutation |-> Packed([i \in 1..n |-> a.permutation[b.permutation[i]]], n),
         orientation_delta |->
            Packed([i \in 1..n |->
                       (a.orientation_delta[b.permutation[i]] + b.orientation_delta[i])
                           % OriMod], n)]

transformation_invert(t) ==
    LET n == Len(t.permutation)
    IN  [permutation |->
            Packed([i \in 1..n |-> CHOOSE j \in 1..n : t.permutation[j] = i], n),
         orientation_delta |->
            Packed([i \in 1..n |->
                       LET j == CHOOSE k \in 1..n : t.permutation[k] = i
                       IN  (OriMod - t.orientation_delta[j]) % OriMod], n)]

apply_transformation(p, t) ==
    LET n == Len(t.permutation)
    IN  [pieces |-> Packed([i \in 1..n |-> p.pieces[t.permutation[i]]], n),
         orientation |->
            Packed([i \in 1..n |->
                       (p.orientation[t.permutation[i]] + t.orientation_delta[i])
                           % OriMod], n)]

OrbitInfo(name, offset, num_pieces) ==
    [name |-> name, pieces_or_pemutations_offset |-> offset, num_pieces |-> num_pieces]

get_piece_or_permutation(p, orbit_info, i) ==
    p.pieces[orbit_info.pieces_or_pemutations_offset + i + 1]

RECURSIVE OrbitPieces(_)
\* The solved pieces of the orbits, one orbit after the other.
OrbitPieces(orbits) ==
    IF orbits = <<>> THEN <<>>
    ELSE [i \in 1..Head(orbits).num_pieces |-> i - 1] \o OrbitPieces(Tail(orbits))

KPuzzle(name, orbits, quanta) ==
    [name |-> name, orbit_iteration_info |-> orbits, quanta |-> quanta,
     num_positions |-> Len(OrbitPieces(orbits))]

identity_transformation(kpuzzle) ==
    MkTransformation([i \in 1..kpuzzle.num_positions |-> i])

default_pattern(kpuzzle) ==
    [pieces |-> OrbitPieces(kpuzzle.orbit_iteration_info),
     orientation |-> ZeroOrientation(kpuzzle.num_positions)]

(***************************************************************************)
(* The small puzzle of the 3x3x3 drivers: one orbit of NumPieces pieces.   *)
(***************************************************************************)
NumPieces == 6

cube3x3x3_kpuzzle ==
    KPuzzle("3x3x3", <<OrbitInfo("PIECES", 0, NumPieces)>>,
            [q \in {"U", "L", "F", "R", "B", "D"} |->
                CASE q = "U" -> MkTransformation(<<4, 1, 2, 3, 5, 6>>)
                  [] q = "L" -> MkTransformation(<<6, 5, 3, 4, 1, 2>>)
                  [] q = "F" -> MkTransformation(<<1, 2, 6, 5, 3, 4>>)
                  [] q = "R" -> MkTransformation(<<6, 5, 4, 3, 1, 2>>)
                  [] q = "B" -> MkTransformation(<<2, 1, 6, 5, 3, 4>>)
                  [] q = "D" -> MkTransformation(<<1, 2, 3, 4, 6, 5>>)])

cube3x3x3_solved == default_pattern(cube3x3x3_kpuzzle)

\* Pieces 0..3 are one class, pieces 4..5 the other; every orientation is 0.
cube3x3x3_g1_target_pattern ==
    [pieces |-> <<0, 0, 0, 0, 4, 4>>, orientation |-> ZeroOrientation(NumPieces)]

(***************************************************************************)
(* The WINGS and CENTERS orbits of the 4x4x4, in Speffz order, with the    *)
(* face turns and the wide turns of the cube.                              *)
(***************************************************************************)
NUM_4X4X4_EDGES == 24

WINGS == OrbitInfo("WINGS", 0, NUM_4X4X4_EDGES)
CENTERS == OrbitInfo("CENTERS", NUM_4X4X4_EDGES, NUM_4X4X4_EDGES)

\* The source position (from 1) of each of the 24 wing positions.
Cube4x4x4WingTurn(q) ==
    CASE q = "U"  -> <<4, 1, 2, 3, 9, 6, 7, 8, 13, 10, 11, 12,
                       17, 14, 15, 16, 5, 18, 19, 20, 21, 22, 23, 24>>
      [] q = "Uw" -> <<4, 1, 2, 3, 9, 10, 7, 8, 13, 14, 11, 12,
                       17, 18, 15, 16, 5, 6, 19, 20, 21, 22, 23, 24>>
      [] q = "L"  -> <<1, 2, 3, 18, 8, 5, 6, 7, 9, 10, 11, 4,
                       13, 14, 15, 16, 17, 24, 19, 20, 21, 22, 23, 12>>
      [] q = "Lw" -> <<19, 2, 3, 18, 8, 5, 6, 7, 1, 10, 11, 4,
                       13, 14, 15, 16, 17, 24, 21, 20, 9, 22, 23, 12>>
      [] q = "F"  -> <<1, 2, 6, 4, 5, 21, 7, 8, 12, 9, 10, 11,
                       13, 14, 15, 3, 17, 18, 19, 20, 16, 22, 23, 24>>
      [] q = "Fw" -> <<1, 2, 6, 7, 5, 21, 22, 8, 12, 9, 10, 11,
                       4, 14, 15, 3, 17, 18, 19, 20, 16, 13, 23, 24>>
      [] q = "R"  -> <<1, 10, 3, 4, 5, 6, 7, 8, 9, 22, 11, 12,
                       16, 13, 14, 15, 17, 18, 19, 2, 21, 20, 23, 24>>
      [] q = "Rw" -> <<1, 10, 11, 4, 5, 6, 7, 8, 9, 22, 23, 12,
                       16, 13, 14, 15, 3, 18, 19, 2, 21, 20, 17, 24>>
      [] q = "B"  -> <<14, 2, 3, 4, 5, 6, 7, 1, 9, 10, 11, 12,
                       13, 23, 15, 16, 20, 17, 18, 19, 21, 22, 8, 24>>
      [] q = "Bw" -> <<14, 15, 3, 4, 2, 6, 7, 1, 9, 10, 11, 12,
                       13, 23, 24, 16, 20, 17, 18, 19, 21, 22, 8, 5>>
      [] q = "D"  -> <<1, 2, 3, 4, 5, 6, 19, 8, 9, 10, 7, 12,
                       13, 14, 11, 16, 17, 18, 15, 20, 24, 21, 22, 23>>
      [] q = "Dw" -> <<1, 2, 3, 4, 5, 6, 19, 20, 9, 10, 7, 8,
                       13, 14, 11, 12, 17, 18, 15, 16, 24, 21, 22, 23>>

\* The source position (from 1) of each of the 24 center positions.
Cube4x4x4CenterTurn(q) ==
    CASE q = "U"  -> <<4, 1, 2, 3, 5, 6, 7, 8, 9, 10, 11, 12,
                       13, 14, 15, 16, 17, 18, 19, 20, 21, 22, 23, 24>>
      [] q = "Uw" -> <<4, 1, 2, 3, 9, 10, 7, 8, 13, 14, 11, 12,
                       17, 18, 15, 16, 5, 6, 19, 20, 21, 22, 23, 24>>
      [] q = "L"  -> <<1, 2, 3, 4, 8, 5, 6, 7, 9, 10, 11, 12,
                       13, 14, 15, 16, 17, 18, 19, 20, 21, 22, 23, 24>>
      [] q = "Lw" -> <<19, 2, 3, 18, 8, 5, 6, 7, 1, 10, 11, 4,
                       13, 14, 15, 16, 17, 24, 21, 20, 9, 22, 23, 12>>
      [] q = "F"  -> <<1, 2, 3, 4, 5, 6, 7, 8, 12, 9, 10, 11,
                       13, 14, 15, 16, 17, 18, 19, 20, 21, 22, 23, 24>>
      [] q = "Fw" -> <<1, 2, 6, 7, 5, 21, 22, 8, 12, 9, 10, 11,
                       4, 14, 15, 3, 17, 18, 19, 20, 16, 13, 23, 24>>
      [] q = "R"  -> <<1, 2, 3, 4, 5, 6, 7, 8, 9, 10, 11, 12,
                       16, 13, 14, 15, 17, 18, 19, 20, 21, 22, 23, 24>>
      [] q = "Rw" -> <<1, 10, 11, 4, 5, 6, 7, 8, 9, 22, 23, 12,
                       16, 13, 14, 15, 3, 18, 19, 2, 21, 20, 17, 24>>
      [] q = "B"  -> <<1, 2, 3, 4, 5, 6, 7, 8, 9, 10, 11, 12,
                       13, 14, 15, 16, 20, 17, 18, 19, 21, 22, 23, 24>>
      [] q = "Bw" -> <<14, 15, 3, 4, 2, 6, 7, 1, 9, 10, 11, 12,
                       13, 23, 24, 16, 20, 17, 18, 19, 21, 22, 8, 5>>
      [] q = "D"  -> <<1, 2, 3, 4, 5, 6, 7, 8, 9, 10, 11, 12,
                       13, 14, 15, 16, 17, 18, 19, 20, 24, 21, 22, 23>>
      [] q = "Dw" -> <<1, 2, 3, 4, 5, 6, 19, 20, 9, 10, 7, 8,
                       13, 14, 11, 12, 17, 18, 15, 16, 24, 21, 22, 23>>

cube4x4x4_kpuzzle ==
    KPuzzle("4x4x4", <<WINGS, CENTERS>>,
            [q \in {"U", "Uw", "L", "Lw", "F", "Fw", "R", "Rw", "B", "Bw", "D", "Dw"} |->
                MkTransformation(
                    Cube4x4x4WingTurn(q)
                    \o [i \in 1..NUM_4X4X4_EDGES |->
                           NUM_4X4X4_EDGES + Cube4x4x4CenterTurn(q)[i]])])

\* The face (0 U, 1 L, 2 F, 3 R, 4 B, 5 D) of a center piece or position.
CenterFace(c) == c \div 4

\* A target pattern: every wing the same piece, every center replaced by its kind.
CenterKindPattern(kind) ==
    [pieces |-> [i \in 1..NUM_4X4X4_EDGES |-> 0]
                \o [i \in 1..NUM_4X4X4_EDGES |-> kind[CenterFace(i - 1) + 1]],
     orientation |-> ZeroOrientation(2 * NUM_4X4X4_EDGES)]

\* Phase 1 brings the L and R centers to the L and R faces.
cube4x4x4_phase1_target_pattern == CenterKindPattern(<<0, 1, 0, 1, 0, 0>>)

\* Phase 2 tells U/D centers (0), L centers (1), R centers (2), F/B centers (3).
cube4x4x4_phase2_target_pattern == CenterKindPattern(<<0, 1, 3, 2, 3, 0>>)

(***************************************************************************)
(* Moves and algorithms.                                                   *)
(***************************************************************************)
Mv(q, a) == [quantum |-> q, amount |-> a]

move_invert(m) == Mv(m.quantum, 0 - m.amount)

RECURSIVE TransformationPower(_, _, _)
TransformationPower(kpuzzle, t, k) ==
    IF k = 0 THEN identity_transformation(kpuzzle)
    ELSE transformation_compose(TransformationPower(kpuzzle, t, k - 1), t)

MoveError == [error |-> "MoveError"]

\* Fails for a move whose quantum the puzzle does not define.
puzzle_transformation_from_move(kpuzzle, m) ==
    IF m.quantum \notin DOMAIN kpuzzle.quanta THEN MoveError
    ELSE IF m.amount >= 0
         THEN TransformationPower(kpuzzle, kpuzzle.quanta[m.quantum], m.amount)
         ELSE TransformationPower(kpuzzle, transformation_invert(kpuzzle.quanta[m.quantum]),
                                  0 - m.amount)

RECURSIVE transformation_from_alg(_, _)
transformation_from_alg(kpuzzle, alg) ==
    IF alg = <<>> THEN identity_transformation(kpuzzle)
    ELSE transformation_compose(puzzle_transformation_from_move(kpuzzle, Head(alg)),
                                transformation_from_alg(kpuzzle, Tail(alg)))

RECURSIVE apply_alg(_, _, _)
apply_alg(kpuzzle, p, alg) ==
    IF alg = <<>> THEN p
    ELSE apply_alg(kpuzzle,
                   apply_transformation(p, puzzle_transformation_from_move(kpuzzle, Head(alg))),
                   Tail(alg))

(***************************************************************************)
(* SearchGenerators (search_generators.rs).                                *)
(***************************************************************************)
IsError(x) == "error" \in DOMAIN x

PuzzleError(e) == [error |-> "PuzzleError", description |-> e.error]

RECURSIVE OrderFrom(_, _, _, _)
OrderFrom(identity, transformation, current_transformation, order) ==
    IF current_transformation = identity THEN order
    ELSE OrderFrom(identity, transformation,
                   transformation_compose(current_transformation, transformation),
                   order + 1)

\* A count from 0 where the code counts from 1.
naive_transformation_order_from_0(identity, transformation) ==
    OrderFrom(identity, transformation, transformation, 0)

naive_transformation_order(identity, transformation) ==
    OrderFrom(identity, transformation, transformation, 1)

canonicalize_center_amount(order, amount) ==
    LET offset == (order - 1) \div 2
    IN  ((amount + offset) % order) - offset

MoveTransformationInfo(m, t) ==
    [move |-> m, transformation |-> t, inverse_transformation |-> transformation_invert(t)]

RECURSIVE HandMultiples_unit_step(_, _, _, _, _, _)
\* A Hand branch that counts the multiples one by one, whatever the move's amount.
HandMultiples_unit_step(kpuzzle, m, order, move_transformation, current, amount) ==
    IF current = identity_transformation(kpuzzle) THEN <<>>
    ELSE <<MoveTransformationInfo(
               Mv(m.quantum, canonicalize_center_amount(order, amount)), current)>>
         \o HandMultiples_unit_step(kpuzzle, m, order, move_transformation,
                                    transformation_compose(current, move_transformation),
                                    amount + 1)

\* The Hand branch: every multiple of the move up to, not including, the identity.
RECURSIVE HandMultiples(_, _, _, _, _, _)
HandMultiples(kpuzzle, m, order, move_transformation, current, amount) ==
    IF current = identity_transformation(kpuzzle) THEN <<>>
    ELSE <<MoveTransformationInfo(
               Mv(m.quantum, canonicalize_center_amount(order, amount)), current)>>
         \o HandMultiples(kpuzzle, m, order, move_transformation,
                          transformation_compose(current, move_transformation),
                          amount + m.amount)

\* The Quantum branch: the move and, unless it is its own inverse, a second entry
\* for the inverted move, built from the same current transformation.
QuantumMultiples(m, move_transformation) ==
    LET info == MoveTransformationInfo(m, move_transformation)
        is_self_inverse == info.transformation = info.inverse_transformation
    IN  IF is_self_inverse THEN <<info>>
        ELSE <<info, MoveTransformationInfo(move_invert(m), move_transformation)>>

\* One iteration of the loop over the moves: the group of one move, or the error.
MultiplesOf(kpuzzle, m, metric) ==
    LET move_quantum == Mv(m.quantum, 1)
        move_quantum_transformation == puzzle_transformation_from_move(kpuzzle, move_quantum)
    IN  IF IsError(move_quantum_transformation)
        THEN PuzzleError(move_quantum_transformation)
        ELSE LET order == naive_transformation_order(identity_transformation(kpuzzle),
                                                     move_quantum_transformation)
                 move_transformation == puzzle_transformation_from_move(kpuzzle, m)
             IN  IF IsError(move_transformation) THEN PuzzleError(move_transformation)
                 ELSE [multiples |->
                         IF metric = "Hand"
                         THEN HandMultiples(kpuzzle, m, order, move_transformation,
                                            move_transformation, m.amount)
                         ELSE QuantumMultiples(m, move_transformation)]

RECURSIVE TryNewFrom_skip_failed(_, _, _, _, _)
\* A loop that leaves out a move that cannot be converted and goes on.
TryNewFrom_skip_failed(kpuzzle, moves, metric, grouped, flat) ==
    IF moves = <<>> THEN [grouped |-> grouped, flat |-> flat]
    ELSE LET r == MultiplesOf(kpuzzle, Head(moves), metric)
         IN  IF IsError(r)
             THEN TryNewFrom_skip_failed(kpuzzle, Tail(moves), metric, grouped, flat)
             ELSE TryNewFrom_skip_failed(kpuzzle, Tail(moves), metric,
                                         Append(grouped, r.multiples), flat \o r.multiples)

RECURSIVE TryNewFrom(_, _, _, _, _)
TryNewFrom(kpuzzle, moves, metric, grouped, flat) ==
    IF moves = <<>> THEN [grouped |-> grouped, flat |-> flat]
    ELSE LET r == MultiplesOf(kpuzzle, Head(moves), metric)
         IN  IF IsError(r) THEN r
             ELSE TryNewFrom(kpuzzle, Tail(moves), metric,
                             Append(grouped, r.multiples), flat \o r.multiples)

\* random_start = false: grouped and flat keep the order of the generator list.
SearchGenerators_try_new(kpuzzle, moves, metric) ==
    TryNewFrom(kpuzzle, moves, metric, <<>>, <<>>)

(***************************************************************************)
(* CanonicalFSM: a state is the set (bitmask) of recently used move        *)
(* classes, each commuting with every class used since.                    *)
(***************************************************************************)
CANONICAL_FSM_START_STATE == {}

\* Classes a and b commute iff their representative transformations do.
CommutationMatrix(grouped) ==
    LET n == Len(grouped)
    IN  Packed([a \in 1..n |-> Packed([b \in 1..n |->
            LET ta == grouped[a][1].transformation
                tb == grouped[b][1].transformation
            IN  transformation_compose(ta, tb) = transformation_compose(tb, ta)], n)], n)

CanonicalFSM_try_new(search_generators) ==
    [commutes |-> CommutationMatrix(search_generators.grouped)]

\* A transition that also refuses a class after a commuting class of lower index.
next_state_either_order(canonical_fsm, state, move_class_index) ==
    IF state = CANONICAL_FSM_START_STATE THEN {{move_class_index}}
    ELSE IF move_class_index \in state THEN {}
    ELSE IF \E b \in state : canonical_fsm.commutes[move_class_index][b]
         THEN {}
    ELSE {{move_class_index}}

\* A transition that refuses a class after a commuting class of lower index, where
\* the rule refuses it after one of higher index.
next_state_higher_first(canonical_fsm, state, move_class_index) ==
    IF state = CANONICAL_FSM_START_STATE THEN {{move_class_index}}
    ELSE IF move_class_index \in state THEN {}
    ELSE IF \E b \in state :
                canonical_fsm.commutes[move_class_index][b] /\ move_class_index > b
         THEN {}
    ELSE {{b \in state : canonical_fsm.commutes[move_class_index][b]}
          \cup {move_class_index}}

\* None is {}, Some(s) is {s}.
next_state(canonical_fsm, state, move_class_index) ==
    IF state = CANONICAL_FSM_START_STATE THEN {{move_class_index}}
    ELSE IF move_class_index \in state THEN {}
    ELSE IF \E b \in state :
                canonical_fsm.commutes[move_class_index][b] /\ move_class_index < b
         THEN {}
    ELSE {{b \in state : canonical_fsm.commutes[move_class_index][b]}
          \cup {move_class_index}}

(***************************************************************************)
(* 4x4x4 phase 2 (cube4x4x4.rs): wing pairs, the coordinates of a pattern  *)
(* and the acceptance predicate of the phase-2 search.                     *)
(***************************************************************************)
\* The high wing of the pair each wing belongs to.
EDGE_TO_INDEX ==
    <<0, 1, 2, 3, 3, 11, 23, 17, 2, 9, 20, 11,
      1, 19, 21, 9, 0, 17, 22, 19, 20, 21, 22, 23>>

is_high(position_or_piece) == EDGE_TO_INDEX[position_or_piece + 1] = position_or_piece

RECURSIVE bitcount(_)
bitcount(bits) == IF bits = 0 THEN 0 ELSE (bits % 2) + bitcount(bits \div 2)

RECURSIVE BitsOf(_, _, _, _, _)
\* The loop "bits *= 2; if piece == mark { bits += 1 }" over the positions idxs.
BitsOf(p, orbit_info, idxs, mark, bits) ==
    IF idxs = <<>> THEN bits
    ELSE BitsOf(p, orbit_info, Tail(idxs), mark,
                2 * bits + (IF get_piece_or_permutation(p, orbit_info, Head(idxs)) = mark
                            THEN 1 ELSE 0))

RECURSIVE CountBelow(_, _, _)
\* How many of 0 .. n-1, of the given width, have k bits set.
CountBelow(n, width, k) ==
    IF width = 0 \/ k < 0 THEN 0
    ELSE LET top == 2 ^ (width - 1)
         IN  IF n >= top
             THEN (IF k = 0 THEN 1 ELSE Cardinality({s \in SUBSET (1..(width - 1)) :
                                                       Cardinality(s) = k}))
                  + CountBelow(n - top, width - 1, k - 1)
             ELSE CountBelow(n, width - 1, k)

\* init_choose_tables, first loop.  The loop visits 0 .. 127 in order, numbers the
\* values with 4 bits set, and gives the complement 255 - i the number of i; every
\* other entry stays 0.  pack84[bits] is pack84[bits + 1] here.
pack84 ==
    Packed([i1 \in 1..256 |->
               IF bitcount(i1 - 1) = 4
               THEN CountBelow(IF i1 - 1 < 128 THEN i1 - 1 ELSE 255 - (i1 - 1), 8, 4)
               ELSE 0], 256)

\* init_choose_tables, second loop.  The loop visits the 16-bit values in order and
\* numbers those with 8 bits set; pack168hi[h] is the number of the first one whose
\* high byte is h, pack168lo[l] the distance from there to the first whose low byte
\* is l.  pack168hi[h] is pack168hi[h + 1] here.
pack168hi ==
    Packed([h1 \in 1..256 |-> CountBelow((h1 - 1) * 256, 16, 8)], 256)

pack168lo ==
    Packed([l1 \in 1..256 |-> CountBelow(l1 - 1, 8, bitcount(l1 - 1))], 256)

Coord84_coordinate_for_pattern(p) ==
    pack84[BitsOf(p, CENTERS, <<4, 5, 6, 7, 12, 13, 14, 15>>, 1, 0) + 1]

Coord168_coordinate_for_pattern(p) ==
    LET bits == BitsOf(p, CENTERS,
                       <<0, 1, 2, 3, 8, 9, 10, 11, 16, 17, 18, 19, 20, 21, 22, 23>>, 0, 0)
    IN  pack168hi[(bits \div 256) + 1] + pack168lo[(bits % 256) + 1]

RECURSIVE CycleFrom(_, _, _, _)
\* The inner while loop: follows the cycle from j, marking positions in bits.
CycleFrom(p, j, bits, cyclen) ==
    IF j \in bits THEN [bits |-> bits, cyclen |-> cyclen]
    ELSE CycleFrom(p, get_piece_or_permutation(p, WINGS, j), bits \cup {j}, cyclen + 1)

RECURSIVE CoordEPFrom_cyclen_only(_, _, _, _)
\* An outer loop that adds cyclen where the code adds cyclen + 1.
CoordEPFrom_cyclen_only(p, idx, bits, r) ==
    IF idx = NUM_4X4X4_EDGES THEN r % 2
    ELSE IF idx \in bits THEN CoordEPFrom_cyclen_only(p, idx + 1, bits, r)
    ELSE LET c == CycleFrom(p, idx, bits, 0)
         IN  CoordEPFrom_cyclen_only(p, idx + 1, c.bits, r + c.cyclen)

RECURSIVE CoordEPFrom(_, _, _, _)
CoordEPFrom(p, idx, bits, r) ==
    IF idx = NUM_4X4X4_EDGES THEN r % 2
    ELSE IF idx \in bits THEN CoordEPFrom(p, idx + 1, bits, r)
    ELSE LET c == CycleFrom(p, idx, bits, 0)
         IN  CoordEPFrom(p, idx + 1, c.bits, r + c.cyclen + 1)

CoordEP_coordinate_for_pattern(p) == CoordEPFrom(p, 0, {}, 0)

\* Whether a permutation of 0 .. n-1 is even.
basic_parity(permutation) ==
    IF Cardinality({ij \in (1..Len(permutation)) \X (1..Len(permutation)) :
                       ij[1] < ij[2] /\ permutation[ij[1]] > permutation[ij[2]]}) % 2 = 0
    THEN "Even" ELSE "Odd"

PHASE2_SOLVED_SIDE_CENTER_CASES ==
    <<
       <<<<"L", "L", "L", "L">>, <<"R", "R", "R", "R">>>>,
       <<<<"R", "R", "R", "R">>, <<"L", "L", "L", "L">>>>,
       <<<<"L", "L", "R", "R">>, <<"L", "L", "R", "R">>>>,
       <<<<"R", "R", "L", "L">>, <<"R", "R", "L", "L">>>>,
       <<<<"R", "R", "L", "L">>, <<"L", "L", "R", "R">>>>,
       <<<<"L", "L", "R", "R">>, <<"R", "R", "L", "L">>>>,
       <<<<"L", "R", "R", "L">>, <<"L", "R", "R", "L">>>>,
       <<<<"R", "L", "L", "R">>, <<"R", "L", "L", "R">>>>,
       <<<<"L", "R", "R", "L">>, <<"R", "L", "L", "R">>>>,
       <<<<"R", "L", "L", "R">>, <<"L", "R", "R", "L">>>>,
       <<<<"L", "R", "L", "R">>, <<"L", "R", "L", "R">>>>,
       <<<<"R", "L", "R", "L">>, <<"R", "L", "R", "L">>>>
    >>

is_solve_center_center_case(case) ==
    \E k \in 1..Len(PHASE2_SOLVED_SIDE_CENTER_CASES) :
        PHASE2_SOLVED_SIDE_CENTER_CASES[k] = case

\* The side of the center at position idx of the full pattern.
SideCenter(p, idx) ==
    IF get_piece_or_permutation(p, CENTERS, idx) < 8 THEN "L" ELSE "R"

\* The end of the range of the orientation loop, "for position in 0..23": the loop
\* visits the positions 0 .. 22.
CheckedWingPositionsEnd == 23

RECURSIVE EdgeLoop(_, _, _, _, _)
\* The loop over the wing positions: the misoriented count and whether every pair
\* was seen with one orientation only.
EdgeLoop(p, position, known_pair_orientations, edge_parity, accept) ==
    IF position >= CheckedWingPositionsEnd
    THEN [edge_parity |-> edge_parity, accept |-> accept]
    ELSE LET position_is_high == is_high(position)
             piece == get_piece_or_permutation(p, WINGS, position)
             piece_is_high == is_high(piece)
             pair_orientation ==
                 IF piece_is_high = position_is_high THEN "Oriented" ELSE "Misoriented"
             edge_pair_index == EDGE_TO_INDEX[piece + 1]
             known == known_pair_orientations[edge_pair_index + 1]
         IN  EdgeLoop(p, position + 1,
                      IF known = "Unknown"
                      THEN [known_pair_orientations EXCEPT
                               ![edge_pair_index + 1] = pair_orientation]
                      ELSE known_pair_orientations,
                      edge_parity + (IF pair_orientation = "Misoriented" THEN 1 ELSE 0),
                      accept /\ (known = "Unknown" \/ known = pair_orientation))

Phase2AdditionalSolutionCondition(kpuzzle, phase2_search_full_pattern) ==
    [kind |-> "Phase2", packed_kpuzzle |-> kpuzzle,
     phase2_search_full_pattern |-> phase2_search_full_pattern]

\* The three checks on a pattern: centers, wing parity, pair orientations.
Phase2Checks(p) ==
    LET centers_ok ==
            is_solve_center_center_case(
                << <<SideCenter(p, 4), SideCenter(p, 5), SideCenter(p, 6), SideCenter(p, 7)>>,
                   <<SideCenter(p, 12), SideCenter(p, 13), SideCenter(p, 14),
                     SideCenter(p, 15)>> >>)
        parity_ok ==
            basic_parity(SubSeq(p.pieces, WINGS.pieces_or_pemutations_offset + 1,
                                WINGS.pieces_or_pemutations_offset + WINGS.num_pieces))
                = "Even"
        edges == EdgeLoop(p, 0, [k \in 1..NUM_4X4X4_EDGES |-> "Unknown"], 0, TRUE)
    IN  centers_ok /\ parity_ok /\ edges.accept /\ edges.edge_parity % 4 = 0

\* Phase2AdditionalSolutionCondition::should_accept_solution: the candidate pattern
\* is not read; the candidate alg is applied to the full pattern phase 1 left.
should_accept_solution(self, candidate_pattern, candidate_alg) ==
    Phase2Checks(apply_transformation(
                     self.phase2_search_full_pattern,
                     transformation_from_alg(self.packed_kpuzzle, candidate_alg)))

\* The coordinate of a pattern in the phase-2 coordinate puzzle.
Phase2Puzzle_coordinate_for_pattern(p) ==
    [coord_84 |-> Coord84_coordinate_for_pattern(p),
     coord_168 |-> Coord168_coordinate_for_pattern(p),
     coord_ep |-> CoordEP_coordinate_for_pattern(p)]

(***************************************************************************)
(* IDFSearch with per-search options: search(pattern, options) and         *)
(* search_with_additional_check(pattern, options, predicate), the          *)
(* operations the drivers call.  A search object holds its puzzle, its     *)
(* generators, its canonical FSM and its target.  A search over the        *)
(* phase-2 coordinate puzzle carries the pattern a coordinate stands for   *)
(* and takes its coordinate where the search compares with the target.     *)
(***************************************************************************)
IDFSearch_try_new_core(tpuzzle, target_pattern, search_generators, canonical_fsm) ==
    [tpuzzle |-> tpuzzle,
     search_generators |-> search_generators,
     canonical_fsm |-> canonical_fsm,
     target_pattern |-> target_pattern]

idfs_with_target_pattern(kpuzzle, generators, target_pattern) ==
    LET search_generators == SearchGenerators_try_new(kpuzzle, generators, "Hand")
    IN  IDFSearch_try_new_core(kpuzzle.name, target_pattern, search_generators,
                               CanonicalFSM_try_new(search_generators))

basic_idfs(kpuzzle, generators) ==
    idfs_with_target_pattern(kpuzzle, generators, default_pattern(kpuzzle))

\* max_depth = NoMaxDepth stands for None; the model stops such a search after pass
\* DepthCap.
NoMaxDepth == 0 - 1

IndividualSearchOptions(min_depth, max_depth, disallowed_initial_quanta, disallowed_final_quanta) ==
    [min_depth |-> min_depth, max_depth |-> max_depth,
     disallowed_initial_quanta |-> disallowed_initial_quanta,
     disallowed_final_quanta |-> disallowed_final_quanta]

\* IndividualSearchOptions::default()
IndividualSearchOptions_default == IndividualSearchOptions(0, NoMaxDepth, {}, {})

is_move_disallowed(m, disallowed_quanta) == m.quantum \in disallowed_quanta

\* No acceptance predicate.
NoCheck == [kind |-> "None"]

\* The acceptance predicate of a search, when there is one.
should_accept(check, candidate_pattern, candidate_alg) ==
    IF check.kind = "None" THEN TRUE
    ELSE should_accept_solution(check, candidate_pattern, candidate_alg)

\* Whether a node of the search is at the target of the search.
is_target(idfs, current_pattern) ==
    IF idfs.tpuzzle = "Phase2Puzzle"
    THEN Phase2Puzzle_coordinate_for_pattern(current_pattern) = idfs.target_pattern
    ELSE current_pattern = idfs.target_pattern

RECURSIVE recurse_with_options(_, _, _, _, _, _, _)
RECURSIVE recurse_loop(_, _, _, _, _, _, _, _, _)

\* The bounded DFS: {} when the subtree holds no solution, {alg} for the first one.
recurse_with_options(idfs, options, check, current_pattern, current_state, remaining_depth, candidate_alg) ==
    IF remaining_depth = 0
    THEN IF /\ candidate_alg # <<>>
            /\ is_move_disallowed(candidate_alg[Len(candidate_alg)],
                                  options.disallowed_final_quanta)
         THEN {}
         ELSE IF /\ is_target(idfs, current_pattern)
                 /\ should_accept(check, current_pattern, candidate_alg)
              THEN {candidate_alg}
              ELSE {}
    ELSE recurse_loop(idfs, options, check, current_pattern, current_state,
                      remaining_depth, candidate_alg, 1, 1)

\* The two nested loops of the DFS, resumed at class ci, multiple mi.
recurse_loop(idfs, options, check, current_pattern, current_state, remaining_depth, candidate_alg, ci, mi) ==
    LET grouped == idfs.search_generators.grouped
    IN  IF ci > Len(grouped) THEN {}
        ELSE LET next == next_state(idfs.canonical_fsm, current_state, ci)
             IN  IF next = {} \/ mi > Len(grouped[ci])
                 THEN recurse_loop(idfs, options, check, current_pattern, current_state,
                                   remaining_depth, candidate_alg, ci + 1, 1)
                 ELSE LET info == grouped[ci][mi]
                          r == IF /\ candidate_alg = <<>>
                                  /\ is_move_disallowed(info.move,
                                                        options.disallowed_initial_quanta)
                               THEN {}
                               ELSE recurse_with_options(
                                        idfs, options, check,
                                        apply_transformation(current_pattern,
                                                             info.transformation),
                                        CHOOSE s \in next : TRUE,
                                        remaining_depth - 1,
                                        Append(candidate_alg, info.move))
                      IN  IF r # {} THEN r
                          ELSE recurse_loop(idfs, options, check, current_pattern,
                                            current_state, remaining_depth,
                                            candidate_alg, ci, mi + 1)

RECURSIVE search_from_depth(_, _, _, _, _)
search_from_depth(idfs, options, check, search_pattern, depth) ==
    IF \/ (options.max_depth # NoMaxDepth /\ depth > options.max_depth)
       \/ depth > DepthCap
    THEN {}
    ELSE LET r == recurse_with_options(idfs, options, check, search_pattern,
                                       CANONICAL_FSM_START_STATE, depth, <<>>)
         IN  IF r # {} THEN r
             ELSE search_from_depth(idfs, options, check, search_pattern, depth + 1)

\* search_with_additional_check(..).next(): {} for None, {alg} for the first solution.
search_with_additional_check(idfs, search_pattern, options, check) ==
    search_from_depth(idfs, options, check, search_pattern, options.min_depth)

search(idfs, search_pattern, options) ==
    search_with_additional_check(idfs, search_pattern, options, NoCheck)

(***************************************************************************)
(* Remapping a pattern through a target pattern.                           *)
(***************************************************************************)
\* The orbit a packed position (from 1) lies in.
OrbitOfPosition(kpuzzle, k) ==
    LET orbits == kpuzzle.orbit_iteration_info
        n == CHOOSE j \in 1..Len(orbits) :
                 /\ k > orbits[j].pieces_or_pemutations_offset
                 /\ k <= orbits[j].pieces_or_pemutations_offset + orbits[j].num_pieces
    IN  orbits[n]

\* The piece written at position i of the orbit: the piece of from_pattern there,
\* looked up in the target pattern.
remap_piece_for_search_pattern(orbit_info, from_pattern, target_pattern, i) ==
    LET old_piece == get_piece_or_permutation(from_pattern, orbit_info, i)
    IN  get_piece_or_permutation(target_pattern, orbit_info, old_piece)

\* The two loops over the orbits and their positions; the orientation is copied.
\* (The 4x4x4 drivers overwrite the orientation of corners and wings with the
\* value that stands for "any orientation", which the model's patterns carry as 0.)
RemappedPattern(kpuzzle, from_pattern, target_pattern) ==
    LET n == kpuzzle.num_positions
    IN  [pieces |->
            Packed([k \in 1..n |->
                       LET orbit_info == OrbitOfPosition(kpuzzle, k)
                       IN  remap_piece_for_search_pattern(
                               orbit_info, from_pattern, target_pattern,
                               k - orbit_info.pieces_or_pemutations_offset - 1)], n),
         orientation |-> Packed([k \in 1..n |-> from_pattern.orientation[k]], n)]

(***************************************************************************)
(* The 3x3x3 two-phase solver (cube3x3x3.rs).                              *)
(***************************************************************************)
generators_from_vec_str(names) == names

Scramble3x3x3TwoPhase_generators ==
    generators_from_vec_str(<<Mv("U", 1), Mv("L", 1), Mv("F", 1),
                              Mv("R", 1), Mv("B", 1), Mv("D", 1)>>)

Scramble3x3x3TwoPhase_phase2_generators ==
    generators_from_vec_str(<<Mv("U", 1), Mv("L", 2), Mv("F", 2),
                              Mv("R", 2), Mv("B", 2), Mv("D", 1)>>)

\* Scramble3x3x3TwoPhase::default()
Scramble3x3x3TwoPhase_default ==
    [packed_kpuzzle |-> cube3x3x3_kpuzzle,
     filtering_idfs |-> basic_idfs(cube3x3x3_kpuzzle, Scramble3x3x3TwoPhase_generators),
     phase1_target_pattern |-> cube3x3x3_g1_target_pattern,
     phase1_idfs |-> idfs_with_target_pattern(cube3x3x3_kpuzzle,
                                              Scramble3x3x3TwoPhase_generators,
                                              cube3x3x3_g1_target_pattern),
     phase2_idfs |-> idfs_with_target_pattern(cube3x3x3_kpuzzle,
                                              Scramble3x3x3TwoPhase_phase2_generators,
                                              default_pattern(cube3x3x3_kpuzzle))]

\* The pattern handed to phase 1.
phase1_search_pattern(self, pattern) ==
    RemappedPattern(self.packed_kpuzzle, pattern, self.phase1_target_pattern)

phase1_disallowed_initial_quanta(constraints) ==
    IF constraints = "ForFMC" THEN {"F", "B"} ELSE {}

disallowed_final_quanta(constraints) ==
    IF constraints = "ForFMC" THEN {"R", "L"} ELSE {}

\* Options of a phase-1 search without disallowed quanta.
phase1_options_no_disallowed(constraints) ==
    IndividualSearchOptions(0, NoMaxDepth, {}, {})

\* Options of the phase-1 search.
phase1_options(constraints) ==
    IndividualSearchOptions(0, NoMaxDepth, phase1_disallowed_initial_quanta(constraints),
                            disallowed_final_quanta(constraints))

\* Options of the phase-2 search.
phase2_options(constraints) ==
    IndividualSearchOptions(0, NoMaxDepth, {}, disallowed_final_quanta(constraints))

\* A phase 1 that looks for solutions of at least one move.
solve_phase1_min_depth_1(self, a_pattern, constraints) ==
    search(self.phase1_idfs, phase1_search_pattern(self, a_pattern),
           IndividualSearchOptions(1, NoMaxDepth, phase1_disallowed_initial_quanta(constraints),
                                   disallowed_final_quanta(constraints)))

\* .next() of the phase-1 search.
solve_phase1(self, pattern, constraints) ==
    search(self.phase1_idfs, phase1_search_pattern(self, pattern),
           phase1_options(constraints))

\* A phase 2 that starts from the scramble pattern itself.
solve_phase2_from_scramble(self, pattern, phase1_alg, constraints) ==
    search(self.phase2_idfs, pattern, phase2_options(constraints))

\* .next() of the phase-2 search, started from the pattern with phase 1 applied.
solve_phase2(self, pattern, phase1_alg, constraints) ==
    search(self.phase2_idfs,
           apply_transformation(pattern,
                                transformation_from_alg(self.packed_kpuzzle, phase1_alg)),
           phase2_options(constraints))

\* A filter whose window ends one move earlier.
is_valid_scramble_pattern_depth1(self, pattern) ==
    search(self.filtering_idfs, pattern, IndividualSearchOptions(0, 1, {}, {})) = {}

\* The filter: no solution of 0, 1 or 2 moves.
is_valid_scramble_pattern(self, pattern) ==
    search(self.filtering_idfs, pattern, IndividualSearchOptions(0, 2, {}, {})) = {}

(***************************************************************************)
(* The 4x4x4 four-phase solver: the driver of cube4x4x4.rs and the driver  *)
(* of cube4x4x4/four_phase.rs.  Both are named Scramble4x4x4FourPhase in   *)
(* the repository; a build has one of them.                                *)
(***************************************************************************)
Scramble4x4x4FourPhase_phase1_generators ==
    generators_from_vec_str(<<Mv("Uw", 1), Mv("U", 1), Mv("Lw", 1), Mv("L", 1),
                              Mv("Fw", 1), Mv("F", 1), Mv("Rw", 1), Mv("R", 1),
                              Mv("Bw", 1), Mv("B", 1), Mv("Dw", 1), Mv("D", 1)>>)

Scramble4x4x4FourPhase_phase2_generators ==
    generators_from_vec_str(<<Mv("Uw", 2), Mv("U", 1), Mv("L", 1), Mv("F", 1), Mv("Rw", 1),
                              Mv("R", 1), Mv("B", 1), Mv("Dw", 2), Mv("D", 1)>>)

\* Scramble4x4x4FourPhase::default() of cube4x4x4.rs
Scramble4x4x4FourPhase_default ==
    [packed_kpuzzle |-> cube4x4x4_kpuzzle,
     phase1_target_pattern |-> cube4x4x4_phase1_target_pattern,
     phase1_idfs |-> idfs_with_target_pattern(cube4x4x4_kpuzzle,
                                              Scramble4x4x4FourPhase_phase1_generators,
                                              cube4x4x4_phase1_target_pattern),
     phase2_center_target_pattern |-> cube4x4x4_phase2_target_pattern,
     phase2_idfs |-> idfs_with_target_pattern(cube4x4x4_kpuzzle,
                                              Scramble4x4x4FourPhase_phase2_generators,
                                              cube4x4x4_phase2_target_pattern)]

\* The pattern the coordinates are taken of: the wings as they are, each center
\* looked up in the phase-2 target.
pattern_to_phase2_pattern(main_search_pattern) ==
    LET remapped == RemappedPattern(cube4x4x4_kpuzzle, main_search_pattern,
                                    cube4x4x4_phase2_target_pattern)
    IN  [pieces |-> SubSeq(main_search_pattern.pieces, 1, NUM_4X4X4_EDGES)
                    \o SubSeq(remapped.pieces, NUM_4X4X4_EDGES + 1, 2 * NUM_4X4X4_EDGES),
         orientation |-> remapped.orientation]

\* The coordinate of the solved pattern.
PHASE2_SOLVED_STATE ==
    Phase2Puzzle_coordinate_for_pattern(
        pattern_to_phase2_pattern(default_pattern(cube4x4x4_kpuzzle)))

\* Scramble4x4x4FourPhase::default() of four_phase.rs: phase 2 is a search over the
\* coordinate puzzle, with the canonical FSM of the phase-2 generators.
four_phase_Scramble4x4x4FourPhase_default ==
    LET phase2_fsm_search_generators ==
            SearchGenerators_try_new(cube4x4x4_kpuzzle,
                                     Scramble4x4x4FourPhase_phase2_generators, "Hand")
    IN  [kpuzzle |-> cube4x4x4_kpuzzle,
         phase1_target_pattern |-> cube4x4x4_phase1_target_pattern,
         phase1_idfs |-> idfs_with_target_pattern(cube4x4x4_kpuzzle,
                                                  Scramble4x4x4FourPhase_phase1_generators,
                                                  cube4x4x4_phase1_target_pattern),
         phase2_idfs |-> IDFSearch_try_new_core(
                             "Phase2Puzzle", PHASE2_SOLVED_STATE,
                             phase2_fsm_search_generators,
                             CanonicalFSM_try_new(phase2_fsm_search_generators))]

\* The phase-1 search of both drivers.
solve_4x4x4_phase1(self, main_search_pattern) ==
    search(self.phase1_idfs,
           RemappedPattern(cube4x4x4_kpuzzle, main_search_pattern,
                           self.phase1_target_pattern),
           IndividualSearchOptions_default)

\* Phase 2 of cube4x4x4.rs: a search for the phase-2 target pattern that accepts a
\* candidate only if Phase2AdditionalSolutionCondition accepts it.
solve_4x4x4_phase2(self, main_search_pattern, phase1_alg) ==
    LET transformation == transformation_from_alg(self.packed_kpuzzle, phase1_alg)
        phase2_search_pattern ==
            apply_transformation(
                RemappedPattern(self.packed_kpuzzle, main_search_pattern,
                                self.phase2_center_target_pattern),
                transformation)
        phase2_search_full_pattern ==
            apply_transformation(main_search_pattern, transformation)
        additional_solution_condition ==
            Phase2AdditionalSolutionCondition(self.packed_kpuzzle,
                                              phase2_search_full_pattern)
    IN  search_with_additional_check(self.phase2_idfs, phase2_search_pattern,
                                     IndividualSearchOptions_default,
                                     additional_solution_condition)

\* Phase 2 of four_phase.rs: a search over the coordinate puzzle; the additional
\* check passed to search_with_additional_check is None.
four_phase_solve_4x4x4_phase2(self, main_search_pattern, phase1_alg) ==
    LET phase2_search_pattern ==
            apply_alg(self.kpuzzle, pattern_to_phase2_pattern(main_search_pattern),
                      phase1_alg)
    IN  search_with_additional_check(self.phase2_idfs, phase2_search_pattern,
                                     IndividualSearchOptions_default, NoCheck)

\* is_valid_scramble_pattern of both 4x4x4 drivers: filtering is disabled.
is_valid_4x4x4_scramble_pattern(self, a_pattern) == TRUE

\* random_4x4x4_pattern(Some(alg)): the solved pattern with the alg applied.
random_4x4x4_pattern(hardcoded_scramble_alg_for_testing) ==
    apply_transformation(
        default_pattern(cube4x4x4_kpuzzle),
        transformation_from_alg(cube4x4x4_kpuzzle, hardcoded_scramble_alg_for_testing))

Pause == [quantum |-> "Pause", amount |-> 0]

(***************************************************************************)
(* State.                                                                  *)
(***************************************************************************)
VARIABLES
    \* IDFSearch::search of search.rs, one step of the recursion per action
    scramble_pattern,   \* IDFSearch.scramble_pattern
    s_pc,               \* "off", "running", "exited" (exit(0)) or "capped" (the model's cap)
    remaining_depth,    \* the depth of the current pass of search()
    stack,              \* the frames of recurse(), innermost last
    ret,                \* the value the innermost finished call returned
    found_alg,          \* the moves on the recursion stack when a call returned true
    last_leaf,          \* the class/multiple indices of the last budget-0 call
    leaves,             \* budget-0 calls made in the current pass
    \* the scramble drivers, one program counter per calling thread
    callers,            \* the threads that call the drivers
    sampling,           \* "wide" or "narrow": the patterns the random sampler may return
    pc,                 \* where each thread is in its call
    entry,              \* the public function each thread called
    pattern,            \* the sampled scramble pattern of each thread (None: {})
    phase1_alg,         \* the phase-1 algorithm of each thread
    phase2_alg,         \* the phase-2 algorithm of each thread
    result,             \* the Alg each thread's call returned
    mutex3,             \* the holder of SCRAMBLE3X3X3_TWO_PHASE (unlocked: {})
    mutex4,             \* the holder of SCRAMBLE4X4X4_FOUR_PHASE (unlocked: {})
    build,              \* the file the build takes Scramble4x4x4FourPhase from
    \* one call of a constructor or of a solver function, with what it returned
    probe               \* the call, its arguments and its result (no call: NoCall)

search_vars == <<scramble_pattern, s_pc, remaining_depth, stack, ret, found_alg,
                 last_leaf, leaves>>

driver_vars == <<callers, sampling, pc, entry, pattern, phase1_alg, phase2_alg, result,
                 mutex3, mutex4, build>>

call_vars == <<probe>>

vars == <<search_vars, driver_vars, call_vars>>

NoCall == [fn |-> "none"]

\* No constructor or solver function is being called on its own.
CallOff == probe = NoCall

Threads == {"t1", "t2"}

\* The two files that define Scramble4x4x4FourPhase.
Builds == {"cube4x4x4.rs", "four_phase.rs"}

\* No thread calls a driver.
DriverOff ==
    /\ callers = {}
    /\ sampling = "narrow"
    /\ pc = [t \in Threads |-> "idle"]
    /\ entry = [t \in Threads |-> "none"]
    /\ pattern = [t \in Threads |-> {}]
    /\ phase1_alg = [t \in Threads |-> <<>>]
    /\ phase2_alg = [t \in Threads |-> <<>>]
    /\ result = [t \in Threads |-> <<>>]
    /\ mutex3 = {}
    /\ mutex4 = {}
    /\ build = "cube4x4x4.rs"

(***************************************************************************)
(* IDFSearch of search.rs: the search runs from target_pattern and looks   *)
(* for scramble_pattern.                                                   *)
(***************************************************************************)
\* Longest scramble the search specification starts from.
SearchScrambleLen == 3
\* Deepest pass the model lets search() start.
SearchDepthCap == 4

SearchMoveList == <<Mv("U", 1), Mv("F", 2), Mv("D", 1)>>

IDFSearch_try_new(packed_kpuzzle, target_pattern, move_list, a_scramble_pattern) ==
    LET search_move_cache == SearchGenerators_try_new(packed_kpuzzle, move_list, "Hand")
    IN  IF IsError(search_move_cache) THEN search_move_cache
        ELSE [search_move_cache |-> search_move_cache,
              canonical_fsm |-> CanonicalFSM_try_new(search_move_cache),
              target_pattern |-> target_pattern,
              scramble_pattern |-> a_scramble_pattern]

\* The parts of the search object that do not depend on the scramble.
SearchObject ==
    IDFSearch_try_new(cube3x3x3_kpuzzle, cube3x3x3_solved, SearchMoveList, cube3x3x3_solved)

Grouped == SearchObject.search_move_cache.grouped

RECURSIVE AlgsUpTo(_, _)
\* Every sequence of at most n entries of flat, as a sequence of moves.
AlgsUpTo(flat, n) ==
    IF n = 0 THEN {<<>>}
    ELSE LET shorter == AlgsUpTo(flat, n - 1)
         IN  shorter \cup {Append(a, flat[i].move) : a \in shorter, i \in 1..Len(flat)}

\* A pattern no sequence of the generators reaches.
UnreachablePattern == apply_alg(cube3x3x3_kpuzzle, cube3x3x3_solved, <<Mv("L", 1)>>)

SearchScrambles ==
    {apply_alg(cube3x3x3_kpuzzle, cube3x3x3_solved, a) :
        a \in AlgsUpTo(SearchObject.search_move_cache.flat, SearchScrambleLen)}
    \cup {UnreachablePattern}

Frame(current_pattern, state, remaining) ==
    [current_pattern |-> current_pattern, current_state |-> state,
     remaining_depth |-> remaining, ci |-> 1, mi |-> 0, next_state |-> {}]

Top == stack[Len(stack)]
Pop == SubSeq(stack, 1, Len(stack) - 1)
SetTop(f) == [stack EXCEPT ![Len(stack)] = f]

\* The moves, and their indices, chosen by the frames below the innermost one.
StackAlg == [k \in 1..(Len(stack) - 1) |-> Grouped[stack[k].ci][stack[k].mi].move]
StackIndices == [k \in 1..(Len(stack) - 1) |-> <<stack[k].ci, stack[k].mi>>]

NoLeaf == <<<<0, 0>>>>

SearchInit ==
    /\ scramble_pattern \in SearchScrambles
    /\ s_pc = "running"
    /\ remaining_depth = 0
    /\ stack = <<>>
    /\ ret = "none"
    /\ found_alg = <<>>
    /\ last_leaf = NoLeaf
    /\ leaves = 0
    /\ DriverOff
    /\ CallOff

\* A pass whose root call gets one more move than the pass's depth.
SearchPass_extra_move ==
    /\ s_pc = "running" /\ stack = <<>> /\ ret = "none"
    /\ remaining_depth <= SearchDepthCap
    /\ stack' = <<Frame(SearchObject.target_pattern, CANONICAL_FSM_START_STATE,
                        remaining_depth + 1)>>
    /\ last_leaf' = NoLeaf
    /\ leaves' = 0
    /\ UNCHANGED <<scramble_pattern, s_pc, remaining_depth, ret, found_alg>>
    /\ UNCHANGED <<driver_vars, call_vars>>

\* search(): the loop body calls recurse(&self.target_pattern, START, remaining_depth).
SearchPass ==
    /\ s_pc = "running" /\ stack = <<>> /\ ret = "none"
    /\ remaining_depth <= SearchDepthCap
    /\ stack' = <<Frame(SearchObject.target_pattern, CANONICAL_FSM_START_STATE,
                        remaining_depth)>>
    /\ last_leaf' = NoLeaf
    /\ leaves' = 0
    /\ UNCHANGED <<scramble_pattern, s_pc, remaining_depth, ret, found_alg>>
    /\ UNCHANGED <<driver_vars, call_vars>>

\* The model stops where the code would go on deepening.
SearchCapped ==
    /\ s_pc = "running" /\ stack = <<>> /\ ret = "none"
    /\ remaining_depth > SearchDepthCap
    /\ s_pc' = "capped"
    /\ UNCHANGED <<scramble_pattern, remaining_depth, stack, ret, found_alg,
                   last_leaf, leaves>>
    /\ UNCHANGED <<driver_vars, call_vars>>

\* A base case that compares with the pattern the recursion started from.
BaseCaseTest_target(current_pattern) == current_pattern = SearchObject.target_pattern

\* recurse(): remaining_depth == 0 returns current_pattern == self.scramble_pattern.
BaseCaseTest(current_pattern) == current_pattern = scramble_pattern

RecurseBaseCase ==
    /\ s_pc = "running" /\ stack # <<>> /\ ret = "none"
    /\ Top.remaining_depth = 0
    /\ LET hit == BaseCaseTest(Top.current_pattern)
       IN  /\ ret' = IF hit THEN "true" ELSE "false"
           /\ found_alg' = IF hit THEN StackAlg ELSE found_alg
    /\ last_leaf' = StackIndices
    /\ leaves' = leaves + 1
    /\ stack' = Pop
    /\ UNCHANGED <<scramble_pattern, s_pc, remaining_depth>>
    /\ UNCHANGED <<driver_vars, call_vars>>

\* The head of the loop over grouped: ask the FSM; None skips the class.
RecurseClass ==
    /\ s_pc = "running" /\ stack # <<>> /\ ret = "none"
    /\ Top.remaining_depth > 0
    /\ Top.ci <= Len(Grouped) /\ Top.mi = 0
    /\ LET next == next_state(SearchObject.canonical_fsm, Top.current_state, Top.ci)
       IN  stack' = IF next = {}
                    THEN SetTop([Top EXCEPT !.ci = @ + 1])
                    ELSE SetTop([Top EXCEPT !.mi = 1, !.next_state = next])
    /\ UNCHANGED <<scramble_pattern, s_pc, remaining_depth, ret, found_alg,
                   last_leaf, leaves>>
    /\ UNCHANGED <<driver_vars, call_vars>>

\* The inner loop: call recurse on the pattern with the multiple applied, or, after
\* the last multiple, go on to the next class.
RecurseMultiple ==
    /\ s_pc = "running" /\ stack # <<>> /\ ret = "none"
    /\ Top.remaining_depth > 0
    /\ Top.ci <= Len(Grouped) /\ Top.mi >= 1
    /\ stack' =
          IF Top.mi > Len(Grouped[Top.ci])
          THEN SetTop([Top EXCEPT !.ci = @ + 1, !.mi = 0, !.next_state = {}])
          ELSE Append(stack,
                      Frame(apply_transformation(
                                Top.current_pattern,
                                Grouped[Top.ci][Top.mi].transformation),
                            CHOOSE n \in Top.next_state : TRUE,
                            Top.remaining_depth - 1))
    /\ UNCHANGED <<scramble_pattern, s_pc, remaining_depth, ret, found_alg,
                   last_leaf, leaves>>
    /\ UNCHANGED <<driver_vars, call_vars>>

\* The inner call returned: true is passed up, false goes on with the next multiple.
RecurseReturned ==
    /\ s_pc = "running" /\ stack # <<>> /\ ret # "none"
    /\ IF ret = "true"
       THEN stack' = Pop /\ ret' = "true"
       ELSE stack' = SetTop([Top EXCEPT !.mi = @ + 1]) /\ ret' = "none"
    /\ UNCHANGED <<scramble_pattern, s_pc, remaining_depth, found_alg, last_leaf,
                   leaves>>
    /\ UNCHANGED <<driver_vars, call_vars>>

\* Every class was tried: return false.
RecurseExhausted ==
    /\ s_pc = "running" /\ stack # <<>> /\ ret = "none"
    /\ Top.remaining_depth > 0
    /\ Top.ci > Len(Grouped)
    /\ stack' = Pop
    /\ ret' = "false"
    /\ UNCHANGED <<scramble_pattern, s_pc, remaining_depth, found_alg, last_leaf,
                   leaves>>
    /\ UNCHANGED <<driver_vars, call_vars>>

\* search(): recurse returned true: print and exit(0).
SearchFound ==
    /\ s_pc = "running" /\ stack = <<>> /\ ret = "true"
    /\ s_pc' = "exited"
    /\ UNCHANGED <<scramble_pattern, remaining_depth, stack, ret, found_alg,
                   last_leaf, leaves>>
    /\ UNCHANGED <<driver_vars, call_vars>>

\* A loop that deepens by two.
SearchDeepen_by_two ==
    /\ s_pc = "running" /\ stack = <<>> /\ ret = "false"
    /\ remaining_depth' = remaining_depth + 2
    /\ ret' = "none"
    /\ UNCHANGED <<scramble_pattern, s_pc, stack, found_alg, last_leaf, leaves>>
    /\ UNCHANGED <<driver_vars, call_vars>>

\* search(): recurse returned false: remaining_depth += 1 and loop.
SearchDeepen ==
    /\ s_pc = "running" /\ stack = <<>> /\ ret = "false"
    /\ remaining_depth' = remaining_depth + 1
    /\ ret' = "none"
    /\ UNCHANGED <<scramble_pattern, s_pc, stack, found_alg, last_leaf, leaves>>
    /\ UNCHANGED <<driver_vars, call_vars>>

SearchNext ==
    \/ SearchPass
    \/ SearchCapped
    \/ RecurseBaseCase
    \/ RecurseClass
    \/ RecurseMultiple
    \/ RecurseReturned
    \/ RecurseExhausted
    \/ SearchFound
    \/ SearchDeepen

SearchSpec == SearchInit /\ [][SearchNext]_vars

(***************************************************************************)
(* Properties of IDFSearch::search (SearchSpec).                           *)
(***************************************************************************)
RECURSIVE AcceptedFrom(_, _)
\* The class/multiple index sequences of length d the FSM accepts from state.
AcceptedFrom(state, d) ==
    IF d = 0 THEN {<<>>}
    ELSE UNION {
        LET next == next_state(SearchObject.canonical_fsm, state, ci)
        IN  IF next = {} THEN {}
            ELSE {<<<<ci, mi>>>> \o rest :
                     mi \in 1..Len(Grouped[ci]),
                     rest \in AcceptedFrom(CHOOSE n \in next : TRUE, d - 1)}
        : ci \in 1..Len(Grouped)}

Accepted == [d \in 0..(SearchDepthCap + 1) |->
                AcceptedFrom(CANONICAL_FSM_START_STATE, d)]

IndexAlg(ix) == [k \in 1..Len(ix) |-> Grouped[ix[k][1]][ix[k][2]].move]

RECURSIVE IndexPattern(_, _)
\* The pattern the transformations of ix, applied in order, make of pattern.
IndexPattern(from_pattern, ix) ==
    IF ix = <<>> THEN from_pattern
    ELSE IndexPattern(
             apply_transformation(from_pattern, Grouped[ix[1][1]][ix[1][2]].transformation),
             Tail(ix))

RECURSIVE LexLeq(_, _)
\* a is not after b in the order of classes and, inside a class, of multiples.
LexLeq(a, b) ==
    IF a = <<>> THEN TRUE
    ELSE \/ a[1][1] < b[1][1]
         \/ a[1][1] = b[1][1] /\ a[1][2] < b[1][2]
         \/ a[1] = b[1] /\ LexLeq(Tail(a), Tail(b))

Hits(ix) == IndexPattern(SearchObject.target_pattern, ix) = scramble_pattern

\* C3 (as the code has it): the moves on the stack when recurse returns true lead
\* from target_pattern, where the recursion starts, to scramble_pattern, the pattern
\* the base case compares with.
C3_SolutionLeadsFromTargetToScramble ==
    ret = "true" =>
        /\ apply_alg(cube3x3x3_kpuzzle, SearchObject.target_pattern, found_alg) = scramble_pattern
        /\ Len(found_alg) = remaining_depth

C3_Witness ==
    /\ s_pc = "exited"
    /\ Len(found_alg) >= 2
    /\ scramble_pattern # SearchObject.target_pattern

\* C3 (as the specification has it): the reported moves, applied to the pattern to
\* be solved, yield the target pattern.
C3_SolutionLeadsFromScrambleToTarget ==
    ret = "true" =>
        apply_alg(cube3x3x3_kpuzzle, scramble_pattern, found_alg) = SearchObject.target_pattern

\* C8: passes run in increasing depth, so the first solution has the least length
\* among the sequences the FSM accepts; within a pass the budget-0 calls come in the
\* order of the grouped classes and, inside a class, of its multiples: the k-th call
\* of a pass is the k-th accepted sequence in that order, and a pass that fails has
\* tried them all.
C8_IterativeDeepeningOrder ==
    /\ (last_leaf # NoLeaf /\ (stack # <<>> \/ ret # "none")) =>
          /\ last_leaf \in Accepted[remaining_depth]
          /\ leaves = Cardinality({ix \in Accepted[remaining_depth] :
                                      LexLeq(ix, last_leaf)})
    /\ (ret = "false" /\ stack = <<>>) =>
          /\ leaves = Cardinality(Accepted[remaining_depth])
          /\ \A ix \in Accepted[remaining_depth] : ~Hits(ix)
    /\ ret = "true" =>
          /\ Hits(last_leaf) /\ IndexAlg(last_leaf) = found_alg
          /\ \A d \in 0..(remaining_depth - 1) : \A ix \in Accepted[d] : ~Hits(ix)
          /\ \A ix \in Accepted[remaining_depth] : Hits(ix) => LexLeq(last_leaf, ix)

\* A solution of two or more moves whose first move is not of the first class, found
\* before the end of its pass.
C8_Witness ==
    /\ s_pc = "exited"
    /\ remaining_depth >= 2
    /\ last_leaf[1][1] >= 2
    /\ leaves >= 3
    /\ leaves < Cardinality(Accepted[remaining_depth])

\* The deepest pass of the window of is_valid_scramble_pattern.
FilteringMaxDepth == 2

\* C9: the search neither exits the process nor starts a pass deeper than the window.
C9_SearchReturnsWithinWindow ==
    /\ s_pc # "exited"
    /\ stack # <<>> => remaining_depth <= FilteringMaxDepth

\* C10: in the pass of depth 0 the only call is the root call, on target_pattern; it
\* consults no class and applies no move, and it returns true exactly when
\* scramble_pattern equals target_pattern.
C10_DepthZeroPass ==
    remaining_depth = 0 =>
        /\ Len(stack) <= 1
        /\ stack # <<>> =>
              /\ Top.ci = 1 /\ Top.mi = 0 /\ Top.next_state = {}
              /\ Top.current_pattern = SearchObject.target_pattern
        /\ found_alg = <<>>
        /\ ret # "none" =>
              /\ leaves = 1
              /\ ret = "true" <=> scramble_pattern = SearchObject.target_pattern

C10_Witness ==
    /\ remaining_depth = 0
    /\ s_pc = "exited"
    /\ scramble_pattern = SearchObject.target_pattern

(***************************************************************************)
(* The scramble drivers of cube3x3x3.rs, called from several threads.      *)
(***************************************************************************)
\* Most pieces the wide sample has away from their home position.
MaxMisplaced == 3

Misplaced(pieces) == Cardinality({i \in 1..NumPieces : pieces[i] # i - 1})

\* The legal patterns random_3x3x3_pattern is allowed to return in the model.
WidePatterns ==
    {[pieces |-> pieces, orientation |-> ZeroOrientation(NumPieces)] :
        pieces \in {Packed([i \in 1..NumPieces |-> q[i] - 1], NumPieces) :
                       q \in {r \in Permutations(1..NumPieces) :
                                 Misplaced([i \in 1..NumPieces |-> r[i] - 1])
                                     <= MaxMisplaced}}}

\* A solved pattern, which the filter rejects, and one three moves from solved.
NarrowPatterns ==
    {cube3x3x3_solved,
     apply_alg(cube3x3x3_kpuzzle, cube3x3x3_solved, <<Mv("U", 1), Mv("F", 2), Mv("U", 1)>>)}

Samples == IF sampling = "wide" THEN WidePatterns ELSE NarrowPatterns

Entries3x3x3 == {"scramble_3x3x3", "scramble_3x3x3_bld", "scramble_3x3x3_fmc"}

Entries4x4x4 == {"scramble_4x4x4"}

Entries == Entries3x3x3 \cup Entries4x4x4

\* The algs the model has in the place of hardcoded_scramble_alg_for_testing.
WideScrambles4x4x4 ==
    {<<>>,
     <<Mv("Rw", 2), Mv("F", 1)>>,
     <<Mv("Uw", 2), Mv("F", 1)>>,
     <<Mv("F", 1), Mv("L", 1)>>,
     <<Mv("Uw", 1)>>,
     <<Mv("Rw", 1), Mv("U", 1)>>}

NarrowScrambles4x4x4 == {<<Mv("Rw", 2), Mv("F", 1)>>}

Scrambles4x4x4 ==
    IF sampling = "wide" THEN WideScrambles4x4x4 ELSE NarrowScrambles4x4x4

\* PrefixOrSuffixConstraints the entry point passes to the solver.
ConstraintsOf(e) == IF e = "scramble_3x3x3_fmc" THEN "ForFMC" ELSE "None"

FMC_AFFIX == <<Mv("R", 0 - 1), Mv("U", 0 - 1), Mv("F", 1)>>

BLD_S1 == <<"", "Rw", "Rw2", "Rw'", "Fw", "Fw'">>
BLD_S2 == <<"", "Uw", "Uw2", "Uw'">>

\* static_parsed_opt_list: the move each entry of the two lists parses to; the
\* empty string is None.
parse_move(name) ==
    CASE name = "Rw"  -> Mv("Rw", 1)
      [] name = "Rw2" -> Mv("Rw", 2)
      [] name = "Rw'" -> Mv("Rw", 0 - 1)
      [] name = "Fw"  -> Mv("Fw", 1)
      [] name = "Fw'" -> Mv("Fw", 0 - 1)
      [] name = "Uw"  -> Mv("Uw", 1)
      [] name = "Uw2" -> Mv("Uw", 2)
      [] name = "Uw'" -> Mv("Uw", 0 - 1)

\* A suffix chosen from a list: the empty string adds nothing.
SuffixNodes(name) == IF name = "" THEN <<>> ELSE <<parse_move(name)>>

PatternOf(t) == CHOOSE p \in pattern[t] : TRUE

DriverInit ==
    /\ pc = [t \in Threads |-> "idle"]
    /\ entry = [t \in Threads |-> "none"]
    /\ pattern = [t \in Threads |-> {}]
    /\ phase1_alg = [t \in Threads |-> <<>>]
    /\ phase2_alg = [t \in Threads |-> <<>>]
    /\ result = [t \in Threads |-> <<>>]
    /\ mutex3 = {}
    /\ mutex4 = {}

\* No search of search.rs runs.
SearchOff ==
    /\ scramble_pattern = cube3x3x3_solved
    /\ s_pc = "off"
    /\ remaining_depth = 0
    /\ stack = <<>>
    /\ ret = "none"
    /\ found_alg = <<>>
    /\ last_leaf = NoLeaf
    /\ leaves = 0

\* A thread calls one of the public scramble functions.
Call(t, e) ==
    /\ t \in callers /\ pc[t] = "idle"
    /\ entry' = [entry EXCEPT ![t] = e]
    /\ pc' = [pc EXCEPT ![t] = "lock"]
    /\ UNCHANGED <<callers, sampling, pattern, phase1_alg, phase2_alg, result, mutex3, mutex4, build>>
    /\ UNCHANGED <<search_vars, call_vars>>

\* A lock that does not wait for the holder.
Lock3x3x3_no_wait(t) ==
    /\ pc[t] = "lock" /\ entry[t] \in Entries3x3x3
    /\ mutex3' = {t}
    /\ pc' = [pc EXCEPT ![t] = "sample"]
    /\ UNCHANGED <<callers, sampling, entry, pattern, phase1_alg, phase2_alg, result, mutex4, build>>
    /\ UNCHANGED <<search_vars, call_vars>>

\* SCRAMBLE3X3X3_TWO_PHASE.lock().unwrap()
Lock3x3x3(t) ==
    /\ pc[t] = "lock" /\ entry[t] \in Entries3x3x3
    /\ mutex3 = {}
    /\ mutex3' = {t}
    /\ pc' = [pc EXCEPT ![t] = "sample"]
    /\ UNCHANGED <<callers, sampling, entry, pattern, phase1_alg, phase2_alg, result, mutex4, build>>
    /\ UNCHANGED <<search_vars, call_vars>>

\* scramble_3x3x3(constraints): the loop draws random_3x3x3_pattern().
Sample3x3x3(t) ==
    /\ pc[t] = "sample" /\ entry[t] \in Entries3x3x3
    /\ \E p \in Samples : pattern' = [pattern EXCEPT ![t] = {p}]
    /\ pc' = [pc EXCEPT ![t] = "filter"]
    /\ UNCHANGED <<callers, sampling, entry, phase1_alg, phase2_alg, result, mutex3, mutex4, build>>
    /\ UNCHANGED <<search_vars, call_vars>>

\* if !self.is_valid_scramble_pattern(&scramble_pattern) { continue; }
Filter3x3x3(t) ==
    /\ pc[t] = "filter" /\ entry[t] \in Entries3x3x3
    /\ pc' = [pc EXCEPT ![t] =
                 IF is_valid_scramble_pattern(Scramble3x3x3TwoPhase_default, PatternOf(t))
                 THEN "phase1" ELSE "sample"]
    /\ UNCHANGED <<callers, sampling, entry, pattern, phase1_alg, phase2_alg, result,
                   mutex3, mutex4, build>>
    /\ UNCHANGED <<search_vars, call_vars>>

\* solve_3x3x3_pattern: the phase-1 search; .next().unwrap() panics on None.
Phase1Search(t) ==
    /\ pc[t] = "phase1" /\ entry[t] \in Entries3x3x3
    /\ LET found == solve_phase1(Scramble3x3x3TwoPhase_default, PatternOf(t),
                                 ConstraintsOf(entry[t]))
       IN  IF found = {}
           THEN /\ pc' = [pc EXCEPT ![t] = "panicked"]
                /\ UNCHANGED phase1_alg
           ELSE /\ pc' = [pc EXCEPT ![t] = "phase2"]
                /\ phase1_alg' = [phase1_alg EXCEPT ![t] = CHOOSE a \in found : TRUE]
    /\ UNCHANGED <<callers, sampling, entry, pattern, phase2_alg, result, mutex3, mutex4, build>>
    /\ UNCHANGED <<search_vars, call_vars>>

\* solve_3x3x3_pattern: the phase-2 search.
Phase2Search(t) ==
    /\ pc[t] = "phase2" /\ entry[t] \in Entries3x3x3
    /\ LET found == solve_phase2(Scramble3x3x3TwoPhase_default, PatternOf(t),
                                 phase1_alg[t], ConstraintsOf(entry[t]))
       IN  IF found = {}
           THEN /\ pc' = [pc EXCEPT ![t] = "panicked"]
                /\ UNCHANGED phase2_alg
           ELSE /\ pc' = [pc EXCEPT ![t] = "return"]
                /\ phase2_alg' = [phase2_alg EXCEPT ![t] = CHOOSE a \in found : TRUE]
    /\ UNCHANGED <<callers, sampling, entry, pattern, phase1_alg, result, mutex3, mutex4, build>>
    /\ UNCHANGED <<search_vars, call_vars>>

\* SCRAMBLE4X4X4_FOUR_PHASE.lock().unwrap()
Lock4x4x4(t) ==
    /\ pc[t] = "lock" /\ entry[t] \in Entries4x4x4
    /\ mutex4 = {}
    /\ mutex4' = {t}
    /\ pc' = [pc EXCEPT ![t] = "sample"]
    /\ UNCHANGED <<callers, sampling, entry, pattern, phase1_alg, phase2_alg, result,
                   mutex3, build>>
    /\ UNCHANGED <<search_vars, call_vars>>

\* scramble_4x4x4(): the loop takes the pattern of the hardcoded alg and asks the
\* filter, which lets every pattern pass.
Sample4x4x4(t) ==
    /\ pc[t] = "sample" /\ entry[t] \in Entries4x4x4
    /\ \E hardcoded_scramble_alg_for_testing \in Scrambles4x4x4 :
          LET a_scramble_pattern ==
                  random_4x4x4_pattern(hardcoded_scramble_alg_for_testing)
          IN  /\ pattern' = [pattern EXCEPT ![t] = {a_scramble_pattern}]
              /\ pc' = [pc EXCEPT ![t] =
                           IF is_valid_4x4x4_scramble_pattern(
                                  Scramble4x4x4FourPhase_default, a_scramble_pattern)
                           THEN "phase1" ELSE "sample"]
    /\ UNCHANGED <<callers, sampling, entry, phase1_alg, phase2_alg, result,
                   mutex3, mutex4, build>>
    /\ UNCHANGED <<search_vars, call_vars>>

\* solve_4x4x4_pattern: the phase-1 search; .next().unwrap() panics on None.
Phase1Search4x4x4(t) ==
    /\ pc[t] = "phase1" /\ entry[t] \in Entries4x4x4
    /\ LET found == IF build = "cube4x4x4.rs"
                    THEN solve_4x4x4_phase1(Scramble4x4x4FourPhase_default, PatternOf(t))
                    ELSE solve_4x4x4_phase1(four_phase_Scramble4x4x4FourPhase_default,
                                            PatternOf(t))
       IN  IF found = {}
           THEN /\ pc' = [pc EXCEPT ![t] = "panicked"]
                /\ UNCHANGED phase1_alg
           ELSE /\ pc' = [pc EXCEPT ![t] = "phase2"]
                /\ phase1_alg' = [phase1_alg EXCEPT ![t] = CHOOSE a \in found : TRUE]
    /\ UNCHANGED <<callers, sampling, entry, pattern, phase2_alg, result,
                   mutex3, mutex4, build>>
    /\ UNCHANGED <<search_vars, call_vars>>

\* solve_4x4x4_pattern: the phase-2 search of the driver the build has.
Phase2Search4x4x4(t) ==
    /\ pc[t] = "phase2" /\ entry[t] \in Entries4x4x4
    /\ LET found == IF build = "cube4x4x4.rs"
                    THEN solve_4x4x4_phase2(Scramble4x4x4FourPhase_default,
                                            PatternOf(t), phase1_alg[t])
                    ELSE four_phase_solve_4x4x4_phase2(
                             four_phase_Scramble4x4x4FourPhase_default,
                             PatternOf(t), phase1_alg[t])
       IN  IF found = {}
           THEN /\ pc' = [pc EXCEPT ![t] = "panicked"]
                /\ UNCHANGED phase2_alg
           ELSE /\ pc' = [pc EXCEPT ![t] = "return"]
                /\ phase2_alg' = [phase2_alg EXCEPT ![t] = CHOOSE a \in found : TRUE]
    /\ UNCHANGED <<callers, sampling, entry, pattern, phase1_alg, result,
                   mutex3, mutex4, build>>
    /\ UNCHANGED <<search_vars, call_vars>>

\* solve_4x4x4_pattern returns phase 1, a pause, phase 2, a pause; scramble_4x4x4
\* returns it and the guard of the mutex is dropped.
Return4x4x4(t) ==
    /\ pc[t] = "return" /\ entry[t] \in Entries4x4x4
    /\ mutex4' = mutex4 \ {t}
    /\ result' = [result EXCEPT ![t] =
                     phase1_alg[t] \o <<Pause>> \o phase2_alg[t] \o <<Pause>>]
    /\ pc' = [pc EXCEPT ![t] = "done"]
    /\ UNCHANGED <<callers, sampling, entry, pattern, phase1_alg, phase2_alg,
                   mutex3, build>>
    /\ UNCHANGED <<search_vars, call_vars>>

\* A driver that returns the inverse of the solution.
ReturnedAlg_inverted(t) ==
    LET nodes == phase1_alg[t] \o phase2_alg[t]
    IN  [k \in 1..Len(nodes) |-> move_invert(nodes[Len(nodes) + 1 - k])]

\* What scramble_3x3x3(constraints) returns: phase-1 nodes, then phase-2 nodes.
ReturnedAlg(t) == phase1_alg[t] \o phase2_alg[t]

\* The solver returns and the guard of the mutex is dropped; scramble_3x3x3_fmc puts
\* FMC_AFFIX before and after what the solver returned.
Return3x3x3(t) ==
    /\ pc[t] = "return" /\ entry[t] \in Entries3x3x3
    /\ mutex3' = mutex3 \ {t}
    /\ result' = [result EXCEPT ![t] =
                     IF entry[t] = "scramble_3x3x3_fmc"
                     THEN FMC_AFFIX \o ReturnedAlg(t) \o FMC_AFFIX
                     ELSE ReturnedAlg(t)]
    /\ pc' = [pc EXCEPT ![t] = IF entry[t] = "scramble_3x3x3_bld" THEN "suffix" ELSE "done"]
    /\ UNCHANGED <<callers, sampling, entry, pattern, phase1_alg, phase2_alg, mutex4, build>>
    /\ UNCHANGED <<search_vars, call_vars>>

\* A suffix that takes its pick from the second list first.
SuffixBld_second_list_first(t) ==
    /\ pc[t] = "suffix" /\ entry[t] = "scramble_3x3x3_bld"
    /\ \E i \in 1..Len(BLD_S1), j \in 1..Len(BLD_S2) :
          result' = [result EXCEPT ![t] =
                        @ \o SuffixNodes(BLD_S2[j]) \o SuffixNodes(BLD_S1[i])]
    /\ pc' = [pc EXCEPT ![t] = "done"]
    /\ UNCHANGED <<callers, sampling, entry, pattern, phase1_alg, phase2_alg, mutex3, mutex4, build>>
    /\ UNCHANGED <<search_vars, call_vars>>

\* scramble_3x3x3_bld: add_random_suffixes_from(scramble_3x3x3(), [s1, s2]).
SuffixBld(t) ==
    /\ pc[t] = "suffix" /\ entry[t] = "scramble_3x3x3_bld"
    /\ \E i \in 1..Len(BLD_S1), j \in 1..Len(BLD_S2) :
          result' = [result EXCEPT ![t] =
                        @ \o SuffixNodes(BLD_S1[i]) \o SuffixNodes(BLD_S2[j])]
    /\ pc' = [pc EXCEPT ![t] = "done"]
    /\ UNCHANGED <<callers, sampling, entry, pattern, phase1_alg, phase2_alg, mutex3, mutex4, build>>
    /\ UNCHANGED <<search_vars, call_vars>>

\* The caller takes the Alg; the thread may call again.
Finish(t) ==
    /\ pc[t] = "done"
    /\ pc' = [pc EXCEPT ![t] = "idle"]
    /\ entry' = [entry EXCEPT ![t] = "none"]
    /\ pattern' = [pattern EXCEPT ![t] = {}]
    /\ phase1_alg' = [phase1_alg EXCEPT ![t] = <<>>]
    /\ phase2_alg' = [phase2_alg EXCEPT ![t] = <<>>]
    /\ result' = [result EXCEPT ![t] = <<>>]
    /\ UNCHANGED <<callers, sampling, mutex3, mutex4, build>>
    /\ UNCHANGED <<search_vars, call_vars>>

Next ==
    \/ \E t \in Threads, e \in Entries : Call(t, e)
    \/ \E t \in Threads : Lock3x3x3(t)
    \/ \E t \in Threads : Sample3x3x3(t)
    \/ \E t \in Threads : Filter3x3x3(t)
    \/ \E t \in Threads : Phase1Search(t)
    \/ \E t \in Threads : Phase2Search(t)
    \/ \E t \in Threads : Return3x3x3(t)
    \/ \E t \in Threads : Lock4x4x4(t)
    \/ \E t \in Threads : Sample4x4x4(t)
    \/ \E t \in Threads : Phase1Search4x4x4(t)
    \/ \E t \in Threads : Phase2Search4x4x4(t)
    \/ \E t \in Threads : Return4x4x4(t)
    \/ \E t \in Threads : SuffixBld(t)
    \/ \E t \in Threads : Finish(t)

\* One thread calls the drivers; the sampler draws from the wide sample.
Init ==
    /\ callers = {"t1"}
    /\ sampling = "wide"
    /\ build \in Builds
    /\ DriverInit
    /\ SearchOff
    /\ CallOff

Spec == Init /\ [][Next]_vars

\* Every thread calls the drivers; the sampler draws from the narrow sample.
MutexInit ==
    /\ callers = Threads
    /\ sampling = "narrow"
    /\ build \in Builds
    /\ DriverInit
    /\ SearchOff
    /\ CallOff

MutexSpec == MutexInit /\ [][Next]_vars

(***************************************************************************)
(* Properties of the 3x3x3 drivers (Spec).                                 *)
(***************************************************************************)
Returned3x3x3(t) == pc[t] \in {"return", "suffix", "done"} /\ entry[t] \in Entries3x3x3

\* C1: the algorithm the solver returns to scramble_3x3x3_fmc, which is put between
\* the two copies of FMC_AFFIX, neither begins with a move of F or B nor ends with a
\* move of R or L, also when the phase-1 algorithm is empty.
C1_FmcInnerAlgKeepsAffixes ==
    \A t \in Threads :
        (pc[t] = "done" /\ entry[t] = "scramble_3x3x3_fmc") =>
            LET inner == SubSeq(result[t], Len(FMC_AFFIX) + 1,
                                Len(result[t]) - Len(FMC_AFFIX))
            IN  inner # <<>> =>
                    /\ inner[1].quantum \notin {"F", "B"}
                    /\ inner[Len(inner)].quantum \notin {"R", "L"}

\* C2: solve_3x3x3_pattern returns, and the algorithm it returns, applied to the
\* pattern it was given, yields the solved pattern.
C2_SolutionSolvesPattern ==
    \A t \in Threads :
        /\ pc[t] # "panicked"
        /\ Returned3x3x3(t) =>
              apply_alg(cube3x3x3_kpuzzle, PatternOf(t), phase1_alg[t] \o phase2_alg[t]) = cube3x3x3_solved

C2_Witness ==
    \E t \in Threads :
        /\ pc[t] = "done"
        /\ Len(phase1_alg[t]) >= 2
        /\ Len(phase2_alg[t]) >= 2

\* C4 (as the code has it): scramble_3x3x3 returns the solution itself, phase-1 moves
\* then phase-2 moves: applied to the sampled pattern it yields the solved pattern.
C4_DriverReturnsTheSolution ==
    \A t \in Threads :
        (pc[t] = "done" /\ entry[t] = "scramble_3x3x3") =>
            /\ result[t] = phase1_alg[t] \o phase2_alg[t]
            /\ apply_alg(cube3x3x3_kpuzzle, PatternOf(t), result[t]) = cube3x3x3_solved

C4_Witness ==
    \E t \in Threads :
        /\ pc[t] = "done" /\ entry[t] = "scramble_3x3x3"
        /\ Len(result[t]) >= 3
        /\ apply_alg(cube3x3x3_kpuzzle, cube3x3x3_solved, result[t]) # PatternOf(t)

\* C4 (as the specification has it): the returned algorithm is the inverse of the
\* solution: applied to the solved pattern it yields the sampled pattern.
C4_DriverReturnsTheInverse ==
    \A t \in Threads :
        (pc[t] = "done" /\ entry[t] = "scramble_3x3x3") =>
            apply_alg(cube3x3x3_kpuzzle, cube3x3x3_solved, result[t]) = PatternOf(t)

\* The algorithms of at most FilteringMaxDepth moves of the filtering generators.
FilterAlgs ==
    AlgsUpTo(Scramble3x3x3TwoPhase_default.filtering_idfs.search_generators.flat,
             FilteringMaxDepth)

\* The patterns some algorithm of FilterAlgs solves.
WithinFilterDepth ==
    {apply_transformation(cube3x3x3_solved,
                          transformation_invert(transformation_from_alg(cube3x3x3_kpuzzle, a))) :
        a \in FilterAlgs}

\* C6: a pattern that 0, 1 or 2 moves solve never gets past the filter: the solver
\* is never run on it and no scramble is returned for it; the loop samples again.
C6_FilterRejectsShortSolutions ==
    \A t \in Threads :
        (pc[t] \in {"phase1", "phase2", "panicked"} \/ Returned3x3x3(t)) =>
            PatternOf(t) \notin WithinFilterDepth

C6_Witness ==
    \E t \in Threads :
        /\ pc[t] = "sample"
        /\ pattern[t] # {}
        /\ PatternOf(t) \in WithinFilterDepth
        /\ \A m \in FilterAlgs : Len(m) <= 1 => apply_alg(cube3x3x3_kpuzzle, PatternOf(t), m) # cube3x3x3_solved


(***************************************************************************)
(* Properties of the 4x4x4 drivers (Spec) and of the mutexes (MutexSpec).  *)
(***************************************************************************)
Returned4x4x4(t) == pc[t] \in {"return", "done"} /\ entry[t] \in Entries4x4x4

\* The full pattern phase 2 leaves: the scramble pattern with both algs applied.
PatternAfterPhase2(t) ==
    apply_alg(cube4x4x4_kpuzzle, PatternOf(t), phase1_alg[t] \o phase2_alg[t])

\* C5: the phase-2 algorithm solve_4x4x4_pattern returns, applied to the full pattern
\* phase 1 left, passes the three checks of the phase-2 acceptance predicate.
C5_Phase2AlgPassesAcceptancePredicate ==
    \A t \in Threads : Returned4x4x4(t) => Phase2Checks(PatternAfterPhase2(t))

\* A thread is generating a scramble: it holds a solver and runs its loop.
Generating(t) == pc[t] \in {"sample", "filter", "phase1", "phase2", "return"}

\* C7 (as the code has it): each solver has its own mutex, held for the whole
\* generation: no two threads generate with the same solver at the same time, and
\* the holder of a mutex is the thread generating with its solver.
C7_OneGenerationPerSolver ==
    /\ \A t \in Threads :
          Generating(t) =>
              IF entry[t] \in Entries3x3x3 THEN mutex3 = {t} ELSE mutex4 = {t}
    /\ \A t, u \in Threads :
          (t # u /\ Generating(t) /\ Generating(u)) =>
              (entry[t] \in Entries3x3x3) # (entry[u] \in Entries3x3x3)

C7_Witness ==
    \E t, u \in Threads :
        /\ t # u
        /\ pc[t] = "phase2" /\ entry[t] \in Entries3x3x3
        /\ pc[u] = "lock" /\ entry[u] \in Entries3x3x3

\* C7 (as the specification has it): at most one thread of the process is
\* generating a scramble at any time.
C7_OneGenerationPerProcess ==
    \A t, u \in Threads : (Generating(t) /\ Generating(u)) => t = u

(***************************************************************************)
(* Phase2SymmCoords::init_move_tables and fillmovetable (cube4x4x4.rs):    *)
(* the move table of one coordinate, filled one row of the queue at a time.*)
(***************************************************************************)
C8_4D2 == 35

PHASE2_MOVECOUNT == 23

EDGE_PARITY == 2

INF == 1000000000

\* A variant of the generator list with quarter turns of Uw.
init_move_tables_phase2_generators_quarter_Uw ==
    generators_from_vec_str(<<Mv("Uw", 1), Mv("U", 1), Mv("L", 1), Mv("F", 1), Mv("Rw", 1),
                              Mv("R", 1), Mv("B", 1), Mv("Dw", 2), Mv("D", 1)>>)

\* init_move_tables: its own copy of the phase-2 generators.
init_move_tables_phase2_generators ==
    generators_from_vec_str(<<Mv("Uw", 2), Mv("U", 1), Mv("L", 1), Mv("F", 1), Mv("Rw", 1),
                              Mv("R", 1), Mv("B", 1), Mv("Dw", 2), Mv("D", 1)>>)

\* init_move_tables: the SearchGenerators handed to every fillmovetable call.
init_move_tables_moves ==
    SearchGenerators_try_new(cube4x4x4_kpuzzle, init_move_tables_phase2_generators, "Hand")

\* The coordinate tables the model fills; Coord168 has C16_8 = 12870 rows.
CoordinateTables == {"Coord84", "Coordep"}

\* coord_field.main_table().len()
main_table_len(coordinate_table) ==
    IF coordinate_table = "Coord84" THEN C8_4D2 ELSE EDGE_PARITY

\* coord_field.coordinate_for_pattern(pattern)
coordinate_for_pattern(coordinate_table, p) ==
    IF coordinate_table = "Coord84" THEN Coord84_coordinate_for_pattern(p)
    ELSE CoordEP_coordinate_for_pattern(p)

\* tab[row][col] = value; rows and columns count from 0 in the code.
TabSet(tab, row, col, value) == [tab EXCEPT ![row + 1][col + 1] = value]

TabGet(tab, row, col) == tab[row + 1][col + 1]

IndexPanic == [error |-> "panic", description |-> "index out of bounds"]

RECURSIVE fillmovetable_row_unseen_only(_, _, _, _, _, _, _)
\* A loop that writes the entry of a move only when it leads to an unseen coordinate.
fillmovetable_row_unseen_only(coordinate_table, q_pattern, src, flat, moveind, tab, q) ==
    IF flat = <<>> THEN [tab |-> tab, q |-> q, moveind |-> moveind]
    ELSE IF moveind >= PHASE2_MOVECOUNT THEN IndexPanic
    ELSE LET dststate == apply_transformation(q_pattern, Head(flat).transformation)
             dst == coordinate_for_pattern(coordinate_table, dststate)
         IN  IF TabGet(tab, dst, 0) = INF
             THEN fillmovetable_row_unseen_only(coordinate_table, q_pattern, src, Tail(flat),
                                                moveind + 1,
                                                TabSet(TabSet(tab, dst, 0, 0), src, moveind, dst),
                                                Append(q, dststate))
             ELSE fillmovetable_row_unseen_only(coordinate_table, q_pattern, src, Tail(flat),
                                                moveind + 1, tab, q)

RECURSIVE fillmovetable_row_no_mark(_, _, _, _, _, _, _)
\* A loop that enqueues an unseen coordinate's pattern without marking the coordinate.
fillmovetable_row_no_mark(coordinate_table, q_pattern, src, flat, moveind, tab, q) ==
    IF flat = <<>> THEN [tab |-> tab, q |-> q, moveind |-> moveind]
    ELSE IF moveind >= PHASE2_MOVECOUNT THEN IndexPanic
    ELSE LET dststate == apply_transformation(q_pattern, Head(flat).transformation)
             dst == coordinate_for_pattern(coordinate_table, dststate)
             tab1 == TabSet(tab, src, moveind, dst)
         IN  IF TabGet(tab1, dst, 0) = INF
             THEN fillmovetable_row_no_mark(coordinate_table, q_pattern, src, Tail(flat),
                                            moveind + 1, tab1, Append(q, dststate))
             ELSE fillmovetable_row_no_mark(coordinate_table, q_pattern, src, Tail(flat),
                                            moveind + 1, tab1, q)

RECURSIVE fillmovetable_row(_, _, _, _, _, _, _)
\* The loop "for m in &moves.flat" of one queue entry; a write at a column that the
\* row does not have panics.
fillmovetable_row(coordinate_table, q_pattern, src, flat, moveind, tab, q) ==
    IF flat = <<>> THEN [tab |-> tab, q |-> q, moveind |-> moveind]
    ELSE IF moveind >= PHASE2_MOVECOUNT THEN IndexPanic
    ELSE LET dststate == apply_transformation(q_pattern, Head(flat).transformation)
             dst == coordinate_for_pattern(coordinate_table, dststate)
             tab1 == TabSet(tab, src, moveind, dst)
         IN  IF TabGet(tab1, dst, 0) = INF
             THEN fillmovetable_row(coordinate_table, q_pattern, src, Tail(flat), moveind + 1,
                                    TabSet(TabSet(tab1, dst, 0, 0), src, moveind, dst),
                                    Append(q, dststate))
             ELSE fillmovetable_row(coordinate_table, q_pattern, src, Tail(flat), moveind + 1,
                                    TabSet(tab1, src, moveind, dst), q)

\* init_move_tables calls fillmovetable: the first column is marked INF and the queue
\* starts from one pattern.  A failed SearchGenerators::try_new panics.
CallFillmovetableStart ==
    /\ probe = NoCall
    /\ \E coordinate_table \in CoordinateTables :
          probe' =
             IF IsError(init_move_tables_moves)
             THEN [fn |-> "init_move_tables", out |-> [error |-> "panic", description |-> ""]]
             ELSE [fn |-> "fillmovetable", coordinate_table |-> coordinate_table,
                   tab |-> [i \in 1..main_table_len(coordinate_table) |->
                               [c \in 1..PHASE2_MOVECOUNT |-> IF c = 1 THEN INF ELSE 0]],
                   q |-> <<IF coordinate_table = "Coordep"
                           THEN default_pattern(cube4x4x4_kpuzzle)
                           ELSE cube4x4x4_phase2_target_pattern>>,
                   qget |-> 0, qput |-> 1, moveind |-> 0]
    /\ UNCHANGED <<search_vars, driver_vars>>

\* One turn of "while qget < qput": the row of the pattern at the head of the queue.
CallFillmovetableRow ==
    /\ probe.fn = "fillmovetable"
    /\ "out" \notin DOMAIN probe
    /\ probe.qget < probe.qput
    /\ LET q_pattern == probe.q[probe.qget + 1]
           src == coordinate_for_pattern(probe.coordinate_table, q_pattern)
           row == fillmovetable_row(probe.coordinate_table, q_pattern, src,
                                    init_move_tables_moves.flat, 0,
                                    TabSet(probe.tab, src, 0, 0), probe.q)
       IN  probe' =
              IF IsError(row)
              THEN [fn |-> "fillmovetable", coordinate_table |-> probe.coordinate_table,
                    tab |-> probe.tab, q |-> probe.q, qget |-> probe.qget,
                    qput |-> probe.qput, moveind |-> PHASE2_MOVECOUNT, out |-> row]
              ELSE [probe EXCEPT !.tab = row.tab, !.q = row.q, !.moveind = row.moveind,
                                 !.qget = probe.qget + 1, !.qput = Len(row.q)]
    /\ UNCHANGED <<search_vars, driver_vars>>

\* The queue is used up: the two assertions on qget and qput.
CallFillmovetableEnd ==
    /\ probe.fn = "fillmovetable"
    /\ "out" \notin DOMAIN probe
    /\ probe.qget >= probe.qput
    /\ probe' =
          [fn |-> "fillmovetable", coordinate_table |-> probe.coordinate_table,
           tab |-> probe.tab, q |-> probe.q, qget |-> probe.qget, qput |-> probe.qput,
           moveind |-> probe.moveind,
           out |-> IF /\ probe.qget = main_table_len(probe.coordinate_table)
                      /\ probe.qput = main_table_len(probe.coordinate_table)
                   THEN [done |-> TRUE]
                   ELSE [error |-> "panic", description |-> "assertion failed"]]
    /\ UNCHANGED <<search_vars, driver_vars>>

(***************************************************************************)
(* Calls of the constructors on their own: SearchGenerators::try_new and   *)
(* IDFSearch::try_new, each from a list of generator moves.                *)
(***************************************************************************)
\* Longest generator list the constructors are called with on the reduced 3x3x3.
MaxGenerators == 2

\* The quantum moves of those lists; the puzzle does not define X.
CallQuanta == {"U", "L", "D", "X"}

CallAmounts == {0 - 1, 0, 1, 2}

CallMoves == {Mv(q, a) : q \in CallQuanta, a \in CallAmounts}

RECURSIVE ListsUpTo(_, _)
\* Every sequence of at most n elements of S.
ListsUpTo(S, n) ==
    IF n = 0 THEN {<<>>}
    ELSE LET shorter == ListsUpTo(S, n - 1)
         IN  shorter \cup {Append(l, x) : l \in shorter, x \in S}

KPuzzleOf(name) == IF name = "4x4x4" THEN cube4x4x4_kpuzzle ELSE cube3x3x3_kpuzzle

\* The puzzle and generator list of a call: short lists on the reduced 3x3x3, the
\* lists of the drivers and a few one-move lists on the 4x4x4.
CallGenerators ==
    {<<"3x3x3", l>> : l \in ListsUpTo(CallMoves, MaxGenerators)}
    \cup {<<"3x3x3", Scramble3x3x3TwoPhase_generators>>,
          <<"3x3x3", Scramble3x3x3TwoPhase_phase2_generators>>,
          <<"4x4x4", Scramble4x4x4FourPhase_phase1_generators>>,
          <<"4x4x4", init_move_tables_phase2_generators>>}
    \cup {<<"4x4x4", <<Mv(q, a)>>>> : q \in {"U", "Uw", "X"}, a \in CallAmounts}

Metrics == {"Hand", "Quantum"}

\* SearchGenerators::try_new(kpuzzle, generators, metric, false)
CallSearchGeneratorsTryNew ==
    /\ probe = NoCall
    /\ \E g \in CallGenerators, metric \in Metrics :
          probe' = [fn |-> "SearchGenerators::try_new",
                    kpuzzle |-> g[1], generators |-> g[2], metric |-> metric,
                    out |-> SearchGenerators_try_new(KPuzzleOf(g[1]), g[2], metric)]
    /\ UNCHANGED <<search_vars, driver_vars>>

\* The move lists IDFSearch::try_new is called with.  The FSM is built from the first
\* multiple of every class, so the lists hold no move whose class has none (a move
\* that leaves the puzzle as it is, such as a move of amount 0).
CallMoveLists ==
    {l \in ListsUpTo(CallMoves, MaxGenerators) :
        LET g == SearchGenerators_try_new(cube3x3x3_kpuzzle, l, "Hand")
        IN  IsError(g) \/ \A i \in 1..Len(g.grouped) : g.grouped[i] # <<>>}

\* IDFSearch::try_new(packed_kpuzzle, target_pattern, move_list, scramble_pattern)
CallIDFSearchTryNew ==
    /\ probe = NoCall
    /\ \E l \in CallMoveLists :
          probe' = [fn |-> "IDFSearch::try_new",
                    kpuzzle |-> "3x3x3", generators |-> l, metric |-> "Hand",
                    out |-> IDFSearch_try_new(cube3x3x3_kpuzzle, cube3x3x3_solved, l,
                                              cube3x3x3_solved)]
    /\ UNCHANGED <<search_vars, driver_vars>>

\* The caller takes the result.
CallReturn ==
    /\ "out" \in DOMAIN probe
    /\ probe' = NoCall
    /\ UNCHANGED <<search_vars, driver_vars>>

(***************************************************************************)
(* Properties of the constructors (CallSpec).                              *)
(***************************************************************************)
ConstructorCalled == probe.fn \in {"SearchGenerators::try_new", "IDFSearch::try_new"}

\* Some listed move has a quantum the puzzle does not define: transformation_from_move
\* fails for it and for its amount-1 quantum move.
HasUnconvertibleMove ==
    \E i \in 1..Len(probe.generators) :
        probe.generators[i].quantum \notin DOMAIN KPuzzleOf(probe.kpuzzle).quanta

InvalidGeneratorSet ==
    \/ probe.generators = <<>>
    \/ \E i \in 1..Len(probe.generators) : probe.generators[i].amount = 0

\* C15: a generator list that is empty, or that holds a move of amount 0, never
\* yields a SearchGenerators value: SearchGenerators::try_new answers such a list
\* with an error, so no constructed value has an empty flat list or an empty group.
C15_InvalidGeneratorsRejected ==
    (probe.fn = "SearchGenerators::try_new" /\ InvalidGeneratorSet) => IsError(probe.out)

\* A finished call of SearchGenerators::try_new in the given metric that returned Ok.
GeneratorsBuilt(metric) ==
    /\ probe.fn = "SearchGenerators::try_new"
    /\ probe.metric = metric
    /\ ~IsError(probe.out)

\* The order of the quantum move of the i-th generator of the call.
QuantumOrder(i) ==
    LET kpuzzle == KPuzzleOf(probe.kpuzzle)
    IN  naive_transformation_order(identity_transformation(kpuzzle),
                                   kpuzzle.quanta[probe.generators[i].quantum])

\* The transformation of the i-th generator of the call.
GeneratorTransformation(i) ==
    puzzle_transformation_from_move(KPuzzleOf(probe.kpuzzle), probe.generators[i])

\* The order of the i-th generator's own transformation.
GeneratorOrder(i) ==
    naive_transformation_order(identity_transformation(KPuzzleOf(probe.kpuzzle)),
                               GeneratorTransformation(i))

\* C18 as amended: in the Hand metric the group of a generator move m of amount a,
\* whose quantum move has order k and whose own transformation T has order j, has
\* exactly j-1 entries; the i-th is the move of amount canonicalize(k, i*a) with the
\* transformation T^i.  With a = 1 or a = -1 that is k-1 entries whose amounts are
\* canonicalize(k, 1..k-1), each once.
C18_HandGroupFollowsTheMove ==
    GeneratorsBuilt("Hand") =>
        \A g \in 1..Len(probe.generators) :
            LET m == probe.generators[g]
                k == QuantumOrder(g)
                j == GeneratorOrder(g)
                group == probe.out.grouped[g]
            IN  /\ Len(group) = j - 1
                /\ \A i \in 1..Len(group) :
                      /\ group[i].move = Mv(m.quantum, canonicalize_center_amount(k, i * m.amount))
                      /\ group[i].transformation =
                            TransformationPower(KPuzzleOf(probe.kpuzzle),
                                                GeneratorTransformation(g), i)
                /\ m.amount \in {1, 0 - 1} =>
                      /\ Len(group) = k - 1
                      /\ {group[i].move.amount : i \in 1..Len(group)}
                            = {canonicalize_center_amount(k, i) : i \in 1..(k - 1)}

\* A Hand call built the one-entry group of a half turn of an order-4 quantum move.
C18_Witness ==
    /\ GeneratorsBuilt("Hand")
    /\ \E g \in 1..Len(probe.generators) :
          /\ probe.generators[g].amount = 2
          /\ QuantumOrder(g) = 4
          /\ Len(probe.out.grouped[g]) = 1
          /\ probe.out.grouped[g][1].move.amount = 2

\* C18 as stated: in the Hand metric the group of every generator move whose quantum
\* move has order k has exactly k-1 entries, with the amounts canonicalize(k, i) for
\* i = 1..k-1 each once, whatever the amount of the move (moves that leave the puzzle
\* as it is left aside).
C18_HandGroupHasEveryMultiple ==
    GeneratorsBuilt("Hand") =>
        \A g \in 1..Len(probe.generators) :
            LET k == QuantumOrder(g)
                group == probe.out.grouped[g]
            IN  GeneratorOrder(g) > 1 =>
                   /\ Len(group) = k - 1
                   /\ {group[i].move.amount : i \in 1..Len(group)}
                         = {canonicalize_center_amount(k, i) : i \in 1..(k - 1)}

\* C20: in the Quantum metric the group of a generator move m with transformation T
\* holds (m, T) and, exactly when T differs from its inverse, a second entry whose
\* move is m.invert() and whose transformation is the inverse of T, so that the two
\* transformations compose to the identity; a self-inverse T gives one entry.
C20_QuantumGroupHoldsMoveAndInverse ==
    GeneratorsBuilt("Quantum") =>
        \A g \in 1..Len(probe.generators) :
            LET kpuzzle == KPuzzleOf(probe.kpuzzle)
                m == probe.generators[g]
                T == GeneratorTransformation(g)
                group == probe.out.grouped[g]
            IN  /\ group[1].move = m
                /\ group[1].transformation = T
                /\ IF T = transformation_invert(T) THEN Len(group) = 1
                   ELSE /\ Len(group) = 2
                        /\ group[2].move = move_invert(m)
                        /\ group[2].transformation = transformation_invert(T)
                        /\ transformation_compose(group[1].transformation,
                                                  group[2].transformation)
                              = identity_transformation(kpuzzle)

\* The rows of the table that the queue loop has been through.
RowsDone == {coordinate_for_pattern(probe.coordinate_table, probe.q[i]) : i \in 1..probe.qget}

\* C19: the SearchGenerators built in the Hand metric from the phase-2 generators
\* Uw2, U, L, F, Rw, R, B, Dw2, D has exactly 23 entries in flat, so in fillmovetable
\* the move index never reaches PHASE2_MOVECOUNT at a write (no row is written out of
\* bounds), a finished row leaves the move index at 23, and every one of the 23 columns
\* of a row the loop has been through holds the coordinate that move leads to.
C19_MoveIndexStaysInTheTable ==
    /\ (/\ probe.fn = "SearchGenerators::try_new"
        /\ probe.kpuzzle = "4x4x4"
        /\ probe.metric = "Hand"
        /\ probe.generators = init_move_tables_phase2_generators)
          => /\ ~IsError(probe.out)
             /\ Len(probe.out.flat) = PHASE2_MOVECOUNT
    /\ probe.fn = "init_move_tables" => ~IsError(probe.out)
    /\ probe.fn = "fillmovetable" =>
          /\ "out" \in DOMAIN probe => ~IsError(probe.out)
          /\ probe.qget > 0 => probe.moveind = PHASE2_MOVECOUNT
          /\ \A i \in 1..probe.qget, c \in 1..PHASE2_MOVECOUNT :
                TabGet(probe.tab, coordinate_for_pattern(probe.coordinate_table, probe.q[i]),
                       c - 1)
                   = coordinate_for_pattern(
                        probe.coordinate_table,
                        apply_transformation(probe.q[i],
                                             init_move_tables_moves.flat[c].transformation))

\* fillmovetable has filled all the rows of the Coord84 table and passed its assertions.
C19_Witness ==
    /\ probe.fn = "fillmovetable"
    /\ probe.coordinate_table = "Coord84"
    /\ "out" \in DOMAIN probe
    /\ ~IsError(probe.out)
    /\ probe.qget = C8_4D2
    /\ Cardinality(RowsDone) = C8_4D2

(***************************************************************************)
(* The filled move tables against patterns other than those of the queue.  *)
(***************************************************************************)
\* Most phase-2 moves from the start pattern to a pattern the tables are read for.
MaxTablePath == 3

\* The pattern fillmovetable starts the queue of a coordinate from.
StartPattern(coordinate_table) ==
    IF coordinate_table = "Coordep" THEN default_pattern(cube4x4x4_kpuzzle)
    ELSE cube4x4x4_phase2_target_pattern

RECURSIVE ReachedWithin(_, _)
\* The patterns at most n moves of moves.flat away from those of S.
ReachedWithin(S, n) ==
    IF n = 0 THEN S
    ELSE LET near == ReachedWithin(S, n - 1)
         IN  near \cup {apply_transformation(p, init_move_tables_moves.flat[m].transformation) :
                           p \in near, m \in 1..PHASE2_MOVECOUNT}

\* Patterns phase-2 moves reach from the start pattern of a coordinate; the two
\* values of CoordEP are met sooner.
Reached(coordinate_table) ==
    ReachedWithin({StartPattern(coordinate_table)},
                  IF coordinate_table = "Coordep" THEN MaxTablePath - 2 ELSE MaxTablePath)

\* Any of the three coordinates of a pattern.
CoordinateOf(coordinate_table, p) ==
    IF coordinate_table = "Coord168" THEN Coord168_coordinate_for_pattern(p)
    ELSE coordinate_for_pattern(coordinate_table, p)

\* The coordinate of a pattern with the coordinates each move leads to from it.
SuccessorRow(coordinate_table, p) ==
    <<CoordinateOf(coordinate_table, p),
      [m \in 1..PHASE2_MOVECOUNT |->
          CoordinateOf(coordinate_table,
                       apply_transformation(p, init_move_tables_moves.flat[m].transformation))]>>

SuccessorRows(coordinate_table) ==
    {SuccessorRow(coordinate_table, p) : p \in Reached(coordinate_table)}

\* fillmovetable has returned without a panic.
TableFilled ==
    /\ probe.fn = "fillmovetable"
    /\ "out" \in DOMAIN probe
    /\ ~IsError(probe.out)

\* C28: after fillmovetable, for every coordinate value c, every move index m and
\* every pattern p reachable by phase-2 moves whose coordinate is c, table[c][m] is
\* the coordinate of p with move m applied: the entry does not depend on which
\* pattern of coordinate c the queue held.
C28_TableEntryForAnyPattern ==
    TableFilled =>
        /\ \A row \in SuccessorRows(probe.coordinate_table) :
              \A m \in 1..PHASE2_MOVECOUNT :
                  TabGet(probe.tab, row[1], m - 1) = row[2][m]
        /\ \A coordinate_table \in {"Coord84", "Coord168", "Coordep"} :
              LET rows == SuccessorRows(coordinate_table)
              IN  \A a \in rows, b \in rows : a[1] = b[1] => a = b

\* The Coord84 table is filled, and a reached pattern that the queue never held has
\* the coordinate of one it held.
C28_Witness ==
    /\ TableFilled
    /\ probe.coordinate_table = "Coord84"
    /\ \E p \in Reached("Coord84") :
          /\ \A i \in 1..Len(probe.q) : probe.q[i] # p
          /\ \E i \in 1..Len(probe.q) :
                /\ Coord84_coordinate_for_pattern(probe.q[i]) = Coord84_coordinate_for_pattern(p)
                /\ Coord84_coordinate_for_pattern(p) > 0

(***************************************************************************)
(* The queue of fillmovetable: which coordinates it has held.              *)
(***************************************************************************)
C16_8 == 12870

\* The center positions Coord168 reads, first the one of the highest bit.
Coord168Positions == <<0, 1, 2, 3, 8, 9, 10, 11, 16, 17, 18, 19, 20, 21, 22, 23>>

\* The bits Coord168::coordinate_for_pattern collects.
Coord168Bits(p) == BitsOf(p, CENTERS, Coord168Positions, 0, 0)

\* The bit of Coord168's bits (1 the highest, 16 the lowest) that a position of the
\* pattern is read into, 0 for the positions Coord168 does not read.
Coord168BitOf ==
    [k \in 1..(2 * NUM_4X4X4_EDGES) |->
        IF \E n \in 1..16 : Coord168Positions[n] + NUM_4X4X4_EDGES + 1 = k
        THEN CHOOSE n \in 1..16 : Coord168Positions[n] + NUM_4X4X4_EDGES + 1 = k
        ELSE 0]

\* For every move of moves.flat and every bit, the bit whose position the move brings
\* there.
Coord168BitSource ==
    [m \in 1..PHASE2_MOVECOUNT |->
        [n \in 1..16 |->
            Coord168BitOf[init_move_tables_moves.flat[m].transformation
                              .permutation[Coord168Positions[n] + NUM_4X4X4_EDGES + 1]]]]

RECURSIVE MovedByte(_, _, _, _)
\* What the set bits of one byte of the bits (from = 0 the high byte, 8 the low one)
\* contribute to the bits after move m.
MovedByte(m, from, byte, n) ==
    IF n > 16 THEN 0
    ELSE LET source == Coord168BitSource[m][n]
             set == /\ source > from
                    /\ source <= from + 8
                    /\ (byte \div (2 ^ (from + 8 - source))) % 2 = 1
         IN  (IF set THEN 2 ^ (16 - n) ELSE 0) + MovedByte(m, from, byte, n + 1)

MovedHigh == [m \in 1..PHASE2_MOVECOUNT |-> [byte \in 0..255 |-> MovedByte(m, 0, byte, 1)]]

MovedLow == [m \in 1..PHASE2_MOVECOUNT |-> [byte \in 0..255 |-> MovedByte(m, 8, byte, 1)]]

\* Coord168's bits of a pattern after move m, from its bits before: the positions
\* Coord168 reads are moved among themselves by every move of moves.flat.
MovedBits168(bits, m) == MovedHigh[m][bits \div 256] + MovedLow[m][bits % 256]

RECURSIVE Queued168(_, _)
\* The Coord168 bits of the patterns the queue comes to hold: those seen so far and
\* those among them whose rows are still to be written.
Queued168(seen, frontier) ==
    IF frontier = {} THEN seen
    ELSE LET dst == {MovedBits168(bits, m) : bits \in frontier, m \in 1..PHASE2_MOVECOUNT}
         IN  Queued168(seen \cup dst, dst \ seen)

\* The rows of the Coord168 table that fillmovetable comes to write from a start
\* pattern.
Coord168Rows(start) ==
    {pack168hi[(bits \div 256) + 1] + pack168lo[(bits % 256) + 1] :
        bits \in Queued168({Coord168Bits(start)}, {Coord168Bits(start)})}

\* The coordinates of the patterns the queue has held so far, in order.
QueuedCoordinates ==
    [i \in 1..Len(probe.q) |-> coordinate_for_pattern(probe.coordinate_table, probe.q[i])]

\* C29: the queue of fillmovetable holds each coordinate value once and the loop
\* ends: a row's first entry is INF exactly while its coordinate is unseen (the start
\* pattern's is marked when it is dequeued), although the entry then takes the
\* coordinate move 0 leads to; every coordinate value of the family is reached from
\* the start pattern; and at the end the dequeued and enqueued counts are the row
\* count, so both assertions hold (35 rows for Coord84, 12870 for Coord168, 2 for
\* CoordEP).
C29_QueueHoldsEachCoordinateOnce ==
    /\ (probe.fn = "fillmovetable") =>
          /\ probe.qput = Len(probe.q)
          /\ probe.qget <= probe.qput
          /\ probe.qput <= main_table_len(probe.coordinate_table)
          /\ \A i \in 1..Len(probe.q), j \in 1..Len(probe.q) :
                i # j => QueuedCoordinates[i] # QueuedCoordinates[j]
          /\ \A c \in 0..(main_table_len(probe.coordinate_table) - 1) :
                (TabGet(probe.tab, c, 0) = INF)
                   <=> (\/ probe.qget = 0
                        \/ \A i \in 1..Len(probe.q) : QueuedCoordinates[i] # c)
          /\ "out" \in DOMAIN probe =>
                /\ ~IsError(probe.out)
                /\ probe.qget = main_table_len(probe.coordinate_table)
                /\ probe.qput = main_table_len(probe.coordinate_table)
                /\ {QueuedCoordinates[i] : i \in 1..Len(probe.q)}
                      = 0..(main_table_len(probe.coordinate_table) - 1)
    /\ TableFilled => Coord168Rows(StartPattern("Coord168")) = 0..(C16_8 - 1)

\* The loop has ended for Coord84 with a row whose first entry, once the unseen
\* mark, is now a coordinate other than 0, and fewer patterns were enqueued than moves
\* were applied.
C29_Witness ==
    /\ TableFilled
    /\ probe.coordinate_table = "Coord84"
    /\ probe.qput = C8_4D2
    /\ probe.qput < probe.qget * PHASE2_MOVECOUNT
    /\ \E c \in 0..(C8_4D2 - 1) : TabGet(probe.tab, c, 0) \notin {0, INF}

(***************************************************************************)
(* The canonical FSM as IDFSearch::recurse uses it: a walk from the start  *)
(* state along the moves of one branch of the search tree.                 *)
(***************************************************************************)
\* Longest branch the FSM is walked along.
MaxWalk == 3

\* The searches whose FSM is walked: phase 2 of the 3x3x3 and of the 4x4x4.
WalkedSearch3x3x3 == Scramble3x3x3TwoPhase_default.phase2_idfs

WalkedSearch4x4x4 == Scramble4x4x4FourPhase_default.phase2_idfs

WalkedSearch(name) == IF name = "4x4x4" THEN WalkedSearch4x4x4 ELSE WalkedSearch3x3x3

\* A move of a branch: <<move class index, index of the multiple in the class>>.
BranchMoves(a_search) ==
    LET grouped == a_search.search_generators.grouped
    IN  UNION {{<<c, k>> : k \in 1..Len(grouped[c])} : c \in 1..Len(grouped)}

Branches3x3x3 == ListsUpTo(BranchMoves(WalkedSearch3x3x3), MaxWalk)

Branches4x4x4 == ListsUpTo(BranchMoves(WalkedSearch4x4x4), MaxWalk - 1)

Branches(name) == IF name = "4x4x4" THEN Branches4x4x4 ELSE Branches3x3x3

RECURSIVE WalkFrom_no_skip(_, _, _)
\* A walk that goes on from the old state where the FSM has no next state.
WalkFrom_no_skip(canonical_fsm, current_state, branch) ==
    IF branch = <<>> THEN {current_state}
    ELSE LET next == next_state(canonical_fsm, current_state, Head(branch)[1])
         IN  IF next = {} THEN WalkFrom_no_skip(canonical_fsm, current_state, Tail(branch))
             ELSE WalkFrom_no_skip(canonical_fsm, CHOOSE s \in next : TRUE, Tail(branch))

RECURSIVE WalkFrom(_, _, _)
\* recurse: "let Some(next_state) = canonical_fsm.next_state(current_state,
\* move_class_index) else continue" along the branch; {} when a step is skipped.
WalkFrom(canonical_fsm, current_state, branch) ==
    IF branch = <<>> THEN {current_state}
    ELSE LET next == next_state(canonical_fsm, current_state, Head(branch)[1])
         IN  IF next = {} THEN {}
             ELSE WalkFrom(canonical_fsm, CHOOSE s \in next : TRUE, Tail(branch))

RECURSIVE BranchTransformation(_, _, _)
\* The transformation the moves of a branch compose to.
BranchTransformation(a_search, kpuzzle, branch) ==
    IF branch = <<>> THEN identity_transformation(kpuzzle)
    ELSE transformation_compose(
             BranchTransformation(a_search, kpuzzle, SubSeq(branch, 1, Len(branch) - 1)),
             a_search.search_generators.grouped[branch[Len(branch)][1]]
                                               [branch[Len(branch)][2]].transformation)

\* The search walks its FSM from CANONICAL_FSM_START_STATE along one branch.
CallCanonicalFSMWalk ==
    /\ probe = NoCall
    /\ \E name \in {"3x3x3", "4x4x4"} :
          \E branch \in Branches(name) :
             probe' = [fn |-> "CanonicalFSM::next_state", kpuzzle |-> name,
                       branch |-> branch,
                       out |-> WalkFrom(WalkedSearch(name).canonical_fsm,
                                        CANONICAL_FSM_START_STATE, branch)]
    /\ UNCHANGED <<search_vars, driver_vars>>

\* The FSM lets the search go down the whole branch.
Accepts(name, branch) ==
    WalkFrom(WalkedSearch(name).canonical_fsm, CANONICAL_FSM_START_STATE, branch) # {}

\* Length and transformation of every branch the FSM accepts.
AcceptedEffects3x3x3 ==
    {<<Len(b), BranchTransformation(WalkedSearch3x3x3, cube3x3x3_kpuzzle, b)>> :
        b \in {a \in Branches3x3x3 : Accepts("3x3x3", a)}}

AcceptedEffects4x4x4 ==
    {<<Len(b), BranchTransformation(WalkedSearch4x4x4, cube4x4x4_kpuzzle, b)>> :
        b \in {a \in Branches4x4x4 : Accepts("4x4x4", a)}}

AcceptedEffects(name) ==
    IF name = "4x4x4" THEN AcceptedEffects4x4x4 ELSE AcceptedEffects3x3x3

FSMWalked == probe.fn = "CanonicalFSM::next_state"

\* The transformation of the branch of the call.
WalkedTransformation ==
    BranchTransformation(WalkedSearch(probe.kpuzzle), KPuzzleOf(probe.kpuzzle), probe.branch)

\* C16 as amended: for any algorithm A over the move classes there is an algorithm A'
\* with the same puzzle effect and at most the length of A that the FSM accepts at
\* every step from START, so pruning with the FSM never removes every representative
\* of an equivalence class from an iterative-deepening search.
C16_CanonicalFormNoLonger ==
    FSMWalked =>
        \E n \in 0..Len(probe.branch) :
            <<n, WalkedTransformation>> \in AcceptedEffects(probe.kpuzzle)

\* A branch of two moves that the FSM refuses and whose effect an accepted branch of
\* one move has.
C16_Witness ==
    /\ FSMWalked
    /\ probe.kpuzzle = "4x4x4"
    /\ Len(probe.branch) = 2
    /\ probe.out = {}
    /\ <<1, WalkedTransformation>> \in AcceptedEffects4x4x4
    /\ <<2, WalkedTransformation>> \notin AcceptedEffects4x4x4

\* C16 as stated: for any algorithm A over the move classes there is an algorithm A'
\* with the same puzzle effect and the same length that the FSM accepts at every step
\* from START.
C16_CanonicalFormSameLength ==
    FSMWalked =>
        <<Len(probe.branch), WalkedTransformation>> \in AcceptedEffects(probe.kpuzzle)

\* The branches one swap of two neighbouring moves of commuting classes away.
Swaps(name, branch) ==
    {[branch EXCEPT ![i] = branch[i + 1], ![i + 1] = branch[i]] :
        i \in {j \in 1..(Len(branch) - 1) :
                 WalkedSearch(name).canonical_fsm.commutes[branch[j][1]][branch[j + 1][1]]}}

RECURSIVE Reorderings(_, _)
\* Every branch reached from those of S by such swaps.
Reorderings(name, S) ==
    LET T == S \cup UNION {Swaps(name, b) : b \in S}
    IN  IF T = S THEN S ELSE Reorderings(name, T)

\* C17: for any sequence accepted by the FSM from START, no other sequence obtained
\* from it by reordering moves of commuting classes (same length, same net
\* transformation) is accepted end-to-end.
C17_OneAcceptedReordering ==
    (FSMWalked /\ probe.out # {}) =>
        \A other \in Reorderings(probe.kpuzzle, {probe.branch}) \ {probe.branch} :
            /\ ~Accepts(probe.kpuzzle, other)
            /\ BranchTransformation(WalkedSearch(probe.kpuzzle), KPuzzleOf(probe.kpuzzle),
                                    other) = WalkedTransformation

\* An accepted branch of three moves with other reorderings.
C17_Witness ==
    /\ FSMWalked
    /\ probe.out # {}
    /\ Len(probe.branch) = MaxWalk
    /\ Cardinality(Reorderings(probe.kpuzzle, {probe.branch})) > 2

(***************************************************************************)
(* The transition rule of the FSM at the end of a walked branch.           *)
(***************************************************************************)
\* The move classes of the walked search.
WalkedClasses == 1..Len(WalkedSearch(probe.kpuzzle).search_generators.grouped)

\* The state an accepted walk ends in.
WalkedState == CHOOSE s \in probe.out : TRUE

\* The classes of the bitmask that commute with class c.
CommutingIn(state, c) ==
    {b \in state : WalkedSearch(probe.kpuzzle).canonical_fsm.commutes[c][b]}

\* next_state of the walked FSM.
WalkedNext(state, c) == next_state(WalkedSearch(probe.kpuzzle).canonical_fsm, state, c)

\* C24: from START every class c is accepted with new state {c}; from a bitmask
\* state, next(state, c) is no state when c is in the bitmask or when c's index is
\* lower than that of a class in the bitmask that commutes with c, and otherwise is
\* (bitmask /\ classes commuting with c) \/ {c}.  Hence after any accepted history the
\* same class is never accepted twice in a row, and for commuting classes a < b the
\* order 'b a' is rejected while 'a b' is accepted.
C24_TransitionsFollowTheBitmaskRule ==
    (FSMWalked /\ probe.out # {}) =>
        /\ (probe.branch = <<>>) => WalkedState = CANONICAL_FSM_START_STATE
        /\ \A c \in WalkedClasses :
              IF probe.branch = <<>> THEN WalkedNext(WalkedState, c) = {{c}}
              ELSE IF c \in WalkedState \/ \E b \in CommutingIn(WalkedState, c) : c < b
                   THEN WalkedNext(WalkedState, c) = {}
              ELSE WalkedNext(WalkedState, c) = {CommutingIn(WalkedState, c) \cup {c}}
        /\ (probe.branch # <<>>) =>
              /\ probe.branch[Len(probe.branch)][1] \in WalkedState
              /\ WalkedNext(WalkedState, probe.branch[Len(probe.branch)][1]) = {}
        /\ \A a \in WalkedClasses, b \in WalkedClasses :
              (a < b /\ WalkedSearch(probe.kpuzzle).canonical_fsm.commutes[a][b]) =>
                 /\ \A s \in WalkedNext(WalkedState, b) : WalkedNext(s, a) = {}
                 /\ \A s \in WalkedNext(WalkedState, a) : WalkedNext(s, b) # {}

\* An accepted branch of two moves that ends with two classes in the bitmask, from
\* where a class is refused for its index and two commuting classes are accepted in
\* increasing order.
C24_Witness ==
    /\ FSMWalked
    /\ probe.out # {}
    /\ Len(probe.branch) = 2
    /\ Cardinality(WalkedState) = 2
    /\ \E c \in WalkedClasses \ WalkedState : WalkedNext(WalkedState, c) = {}
    /\ \E a \in WalkedClasses, b \in WalkedClasses :
          /\ a < b
          /\ WalkedSearch(probe.kpuzzle).canonical_fsm.commutes[a][b]
          /\ \E s \in WalkedNext(WalkedState, a) : WalkedNext(s, b) # {}

(***************************************************************************)
(* Calls of the 3x3x3 solver and of its searches on their own.             *)
(***************************************************************************)
\* The moves of the two searches of the 3x3x3 solver.
Phase1Moves ==
    {Scramble3x3x3TwoPhase_default.phase1_idfs.search_generators.flat[i].move :
        i \in 1..Len(Scramble3x3x3TwoPhase_default.phase1_idfs.search_generators.flat)}

Phase2Moves ==
    {Scramble3x3x3TwoPhase_default.phase2_idfs.search_generators.flat[i].move :
        i \in 1..Len(Scramble3x3x3TwoPhase_default.phase2_idfs.search_generators.flat)}

\* The patterns the solver is called with: the solved pattern with one move of the
\* generators, or with up to two moves of the phase-2 generators, applied.
CallPatterns ==
    {apply_alg(cube3x3x3_kpuzzle, cube3x3x3_solved, a) :
        a \in {<<m>> : m \in Phase1Moves} \cup ListsUpTo(Phase2Moves, 2)}

PrefixOrSuffixConstraints == {"None", "ForFMC"}

UnwrapPanic == [error |-> "panic", description |-> "unwrap on None"]

\* Scramble3x3x3TwoPhase::solve_3x3x3_pattern(pattern, constraints)
solve_3x3x3_pattern(self, a_pattern, constraints) ==
    LET found1 == solve_phase1(self, a_pattern, constraints)
    IN  IF found1 = {} THEN UnwrapPanic
        ELSE LET alg1 == CHOOSE a \in found1 : TRUE
                 found2 == solve_phase2(self, a_pattern, alg1, constraints)
             IN  IF found2 = {} THEN UnwrapPanic
                 ELSE LET alg2 == CHOOSE a \in found2 : TRUE
                      IN  [phase1 |-> alg1, phase2 |-> alg2, nodes |-> alg1 \o alg2]

CallSolve3x3x3Pattern ==
    /\ probe = NoCall
    /\ \E a_pattern \in CallPatterns, constraints \in PrefixOrSuffixConstraints :
          probe' = [fn |-> "solve_3x3x3_pattern", arg |-> a_pattern,
                    constraints |-> constraints,
                    out |-> solve_3x3x3_pattern(Scramble3x3x3TwoPhase_default, a_pattern,
                                                constraints)]
    /\ UNCHANGED <<search_vars, driver_vars>>

\* The quantum moves of the generators of the 3x3x3 solver.
AllQuanta == {"U", "L", "F", "R", "B", "D"}

\* The disallowed initial and final quanta a search is called with.
CallDisallowed ==
    {<<{}, {}>>, <<{"F", "B"}, {"R", "L"}>>, <<{"U"}, {"D"}>>,
     <<AllQuanta, {}>>, <<{}, AllQuanta>>}

\* phase2_idfs.search(pattern, options).next()
CallSearch ==
    /\ probe = NoCall
    /\ \E a_pattern \in CallPatterns, d \in CallDisallowed :
          LET options == IndividualSearchOptions(0, NoMaxDepth, d[1], d[2])
          IN  probe' = [fn |-> "search", arg |-> a_pattern, options |-> options,
                        out |-> search(Scramble3x3x3TwoPhase_default.phase2_idfs,
                                       a_pattern, options)]
    /\ UNCHANGED <<search_vars, driver_vars>>

\* The pattern, remapped through the phase-1 target, equals the phase-1 target.
InG1(a_pattern) ==
    phase1_search_pattern(Scramble3x3x3TwoPhase_default, a_pattern)
        = cube3x3x3_g1_target_pattern

Solved3x3x3 == probe.fn = "solve_3x3x3_pattern" /\ ~IsError(probe.out)

\* C12: for a pattern that is in G1, phase 1 of solve_3x3x3_pattern returns the empty
\* algorithm and the result is exactly the phase-2 solution for the pattern itself;
\* the solved pattern gives the empty algorithm and apply(solved, U) the one move U'.
C12_G1PatternSkipsPhase1 ==
    (Solved3x3x3 /\ InG1(probe.arg)) =>
        /\ probe.out.phase1 = <<>>
        /\ probe.out.nodes = probe.out.phase2
        /\ {probe.out.nodes} = search(Scramble3x3x3TwoPhase_default.phase2_idfs, probe.arg,
                                      phase2_options(probe.constraints))
        /\ apply_alg(cube3x3x3_kpuzzle, probe.arg, probe.out.nodes) = cube3x3x3_solved
        /\ probe.arg = cube3x3x3_solved => probe.out.nodes = <<>>
        /\ probe.arg = apply_alg(cube3x3x3_kpuzzle, cube3x3x3_solved, <<Mv("U", 1)>>)
              => probe.out.nodes = <<Mv("U", 0 - 1)>>

\* solve_3x3x3_pattern returned U' for apply(solved, U).
C12_Witness ==
    /\ Solved3x3x3
    /\ probe.arg = apply_alg(cube3x3x3_kpuzzle, cube3x3x3_solved, <<Mv("U", 1)>>)
    /\ InG1(probe.arg)
    /\ probe.out.nodes = <<Mv("U", 0 - 1)>>

\* The quantum of the first and of the last move of a non-empty algorithm.
FirstQuantum(alg) == alg[1].quantum

LastQuantum(alg) == alg[Len(alg)].quantum

\* C11: no solution yielded by a search starts with a move whose quantum is in
\* disallowed_initial_quanta and none ends with a move whose quantum is in
\* disallowed_final_quanta; a search whose disallowed_initial_quanta holds every
\* quantum move of its generators yields no solution of depth >= 1.  The same holds
\* for the two algorithms solve_3x3x3_pattern finds under ForFMC.
C11_DisallowedQuantaKept ==
    /\ probe.fn = "search" =>
          \A alg \in probe.out :
             /\ alg # <<>> =>
                   /\ FirstQuantum(alg) \notin probe.options.disallowed_initial_quanta
                   /\ LastQuantum(alg) \notin probe.options.disallowed_final_quanta
             /\ AllQuanta \subseteq probe.options.disallowed_initial_quanta => alg = <<>>
    /\ (Solved3x3x3 /\ probe.constraints = "ForFMC") =>
          /\ probe.out.phase1 # <<>> =>
                /\ FirstQuantum(probe.out.phase1) \notin {"F", "B"}
                /\ LastQuantum(probe.out.phase1) \notin {"R", "L"}
          /\ probe.out.phase2 # <<>> => LastQuantum(probe.out.phase2) \notin {"R", "L"}

\* Under ForFMC the solver found a phase-1 algorithm for a pattern whose
\* unconstrained phase-1 solution starts with F or B, or ends with R or L.
C11_Witness ==
    /\ Solved3x3x3
    /\ probe.constraints = "ForFMC"
    /\ probe.out.phase1 # <<>>
    /\ \E free \in solve_phase1(Scramble3x3x3TwoPhase_default, probe.arg, "None") :
          /\ free # <<>>
          /\ \/ FirstQuantum(free) \in {"F", "B"}
             \/ LastQuantum(free) \in {"R", "L"}

\* scramble_3x3x3_bld has returned on thread t.
ReturnedBld(t) == pc[t] = "done" /\ entry[t] = "scramble_3x3x3_bld"

\* What follows the result of scramble_3x3x3 in the result of scramble_3x3x3_bld.
BldSuffix(t) == SubSeq(result[t], Len(ReturnedAlg(t)) + 1, Len(result[t]))

\* C13: scramble_3x3x3_bld returns the unmodified result of scramble_3x3x3 followed
\* by two independent picks, the first of nothing, Rw, Rw2, Rw', Fw, Fw' and the second
\* of nothing, Uw, Uw2, Uw': the suffix has at most two moves, never holds both an Rw
\* move and an Fw move, and a Uw move can only be the last move.
C13_BldSuffixIsTwoPicks ==
    \A t \in Threads :
        ReturnedBld(t) =>
            LET suffix == BldSuffix(t)
                first == {<<>>, <<Mv("Rw", 1)>>, <<Mv("Rw", 2)>>, <<Mv("Rw", 0 - 1)>>,
                          <<Mv("Fw", 1)>>, <<Mv("Fw", 0 - 1)>>}
                second == {<<>>, <<Mv("Uw", 1)>>, <<Mv("Uw", 2)>>, <<Mv("Uw", 0 - 1)>>}
            IN  /\ Len(result[t]) >= Len(ReturnedAlg(t))
                /\ SubSeq(result[t], 1, Len(ReturnedAlg(t))) = ReturnedAlg(t)
                /\ \E a \in first, b \in second : suffix = a \o b
                /\ Len(suffix) <= 2
                /\ ~ /\ \E i \in 1..Len(suffix) : suffix[i].quantum = "Rw"
                     /\ \E i \in 1..Len(suffix) : suffix[i].quantum = "Fw"
                /\ \A i \in 1..Len(suffix) : suffix[i].quantum = "Uw" => i = Len(suffix)

\* scramble_3x3x3_bld returned a solution of at least one move followed by Fw' Uw2.
C13_Witness ==
    \E t \in Threads :
        /\ ReturnedBld(t)
        /\ ReturnedAlg(t) # <<>>
        /\ BldSuffix(t) = <<Mv("Fw", 0 - 1), Mv("Uw", 2)>>

(***************************************************************************)
(* SearchGenerators::try_new with random_start = true: grouped and flat    *)
(* are shuffled, each on its own, before they are returned.                *)
(***************************************************************************)
\* Every order a shuffle can leave a list in.
Shuffles(list) ==
    {[i \in 1..Len(list) |-> list[p[i]]] : p \in Permutations(1..Len(list))}

\* The generator lists of the calls with random_start = true.
ShuffledGenerators ==
    {<<Mv("U", 1)>>, <<Mv("U", 1), Mv("D", 1)>>, <<Mv("L", 2), Mv("U", 0 - 1)>>,
     <<Mv("U", 2), Mv("U", 1)>>, <<Mv("D", 1), Mv("L", 2), Mv("F", 2)>>}

\* SearchGenerators::try_new(kpuzzle, generators, metric, true)
CallSearchGeneratorsTryNewRandomStart ==
    /\ probe = NoCall
    /\ \E generators \in ShuffledGenerators, metric \in Metrics :
          LET built == SearchGenerators_try_new(cube3x3x3_kpuzzle, generators, metric)
          IN  \E grouped \in Shuffles(built.grouped), flat \in Shuffles(built.flat) :
                 probe' = [fn |-> "SearchGenerators::try_new random_start",
                           kpuzzle |-> "3x3x3", generators |-> generators,
                           metric |-> metric,
                           unshuffled |-> built,
                           out |-> [grouped |-> grouped, flat |-> flat]]
    /\ UNCHANGED <<search_vars, driver_vars>>

\* A finished call of SearchGenerators::try_new, random_start on or off, that
\* returned Ok.
AnyGeneratorsBuilt ==
    /\ probe.fn \in {"SearchGenerators::try_new", "SearchGenerators::try_new random_start"}
    /\ ~IsError(probe.out)

\* The entries of all the groups, as <<group, index in the group>>.
GroupSlots(grouped) ==
    UNION {{<<g, k>> : k \in 1..Len(grouped[g])} : g \in 1..Len(grouped)}

\* C21: after every successful SearchGenerators::try_new, for any generator list,
\* one that repeats a quantum move included, flat and grouped hold the same entries:
\* every entry of flat belongs to exactly one group, every group entry occurs in flat,
\* the entries of a group share one quantum move and no two groups have the same
\* quantum move.
C21_FlatAndGroupedAgree ==
    AnyGeneratorsBuilt =>
        LET grouped == probe.out.grouped
            flat == probe.out.flat
        IN  /\ Len(flat) = Cardinality(GroupSlots(grouped))
            /\ \A i \in 1..Len(flat) :
                  Cardinality({g \in 1..Len(grouped) :
                                  \E k \in 1..Len(grouped[g]) : grouped[g][k] = flat[i]}) = 1
            /\ \A s \in GroupSlots(grouped) :
                  \E i \in 1..Len(flat) : flat[i] = grouped[s[1]][s[2]]
            /\ \A g \in 1..Len(grouped) : \A k \in 1..Len(grouped[g]) :
                  grouped[g][k].move.quantum = grouped[g][1].move.quantum
            /\ \A g, h \in 1..Len(grouped) :
                  (g # h /\ grouped[g] # <<>> /\ grouped[h] # <<>>)
                     => grouped[g][1].move.quantum # grouped[h][1].move.quantum

(***************************************************************************)
(* canonicalize_center_amount and naive_transformation_order called on     *)
(* their own.                                                              *)
(***************************************************************************)
\* Largest order and largest small amount canonicalize_center_amount is called with.
MaxOrder == 6

MaxAmount == 8

I32_MAX == 2147483647

I32_MIN == 0 - I32_MAX - 1

\* The amounts of the calls: the small ones and the ends of the i32 range.
CanonicalizeAmounts ==
    ((0 - MaxAmount)..MaxAmount)
    \cup {I32_MAX - d : d \in 0..2} \cup {I32_MIN + d : d \in 0..2}

OverflowPanic == [error |-> "panic", description |-> "attempt to add with overflow"]

\* What "amount + offset" gives in i32: both operands are in range and offset >= 0,
\* so the sum only overflows upwards; a build with overflow checks panics and one
\* without wraps around.  Ok(n) is [value |-> n].
canonicalize_center_amount_i32(order, amount) ==
    LET offset == (order - 1) \div 2
    IN  IF amount > I32_MAX - offset
        THEN {OverflowPanic,
              [value |-> ((((amount - I32_MAX) + (offset - I32_MAX)) - 2) % order) - offset]}
        ELSE {[value |-> canonicalize_center_amount(order, amount)]}

\* canonicalize_center_amount(order, amount)
CallCanonicalizeCenterAmount ==
    /\ probe = NoCall
    /\ \E order \in 1..MaxOrder, amount \in CanonicalizeAmounts :
          \E out \in canonicalize_center_amount_i32(order, amount) :
             probe' = [fn |-> "canonicalize_center_amount", order |-> order,
                       amount |-> amount, out |-> out]
    /\ UNCHANGED <<search_vars, driver_vars>>

Canonicalized == probe.fn = "canonicalize_center_amount"

\* C22: canonicalize_center_amount(order, a) returns, for every order >= 1 and every
\* amount a, negative ones included, the one value congruent to a modulo order that
\* lies between -floor((order-1)/2) and floor(order/2); it is idempotent, and for
\* order 2 it maps 0, 1, -1 to 0, 1, 1.
C22_CanonicalAmountInSymmetricRange ==
    Canonicalized =>
        /\ ~IsError(probe.out)
        /\ probe.out.value % probe.order = probe.amount % probe.order
        /\ probe.out.value >= 0 - ((probe.order - 1) \div 2)
        /\ probe.out.value <= probe.order \div 2
        /\ canonicalize_center_amount_i32(probe.order, probe.out.value) = {probe.out}
        /\ (probe.order = 2 /\ probe.amount \in {0, 1, 0 - 1})
              => probe.out.value = (IF probe.amount = 0 THEN 0 ELSE 1)

\* Longest alg whose transformation naive_transformation_order is called with.
MaxOrderAlg == 2

\* The transformations of the calls: those of short algs of the reduced 3x3x3 and of
\* the 4x4x4 (the empty alg gives the identity).
OrderAlgs ==
    {<<"3x3x3", l>> : l \in ListsUpTo({Mv(q, a) : q \in {"U", "L", "F", "D"}, a \in {1, 2}},
                                      MaxOrderAlg)}
    \cup {<<"4x4x4", l>> : l \in ListsUpTo({Mv("U", 1), Mv("Uw", 1), Mv("R", 2)},
                                           MaxOrderAlg)}

\* naive_transformation_order(identity_transformation, transformation)
CallNaiveTransformationOrder ==
    /\ probe = NoCall
    /\ \E a \in OrderAlgs :
          LET kpuzzle == KPuzzleOf(a[1])
              transformation == transformation_from_alg(kpuzzle, a[2])
          IN  probe' = [fn |-> "naive_transformation_order", kpuzzle |-> a[1],
                        alg |-> a[2], transformation |-> transformation,
                        out |-> naive_transformation_order(identity_transformation(kpuzzle),
                                                           transformation)]
    /\ UNCHANGED <<search_vars, driver_vars>>

OrderCounted == probe.fn = "naive_transformation_order"

RECURSIVE IsLeastPower(_, _, _, _, _)
\* current is the k-th power of t: no power from the k-th to the one before the
\* n-th is the identity, and the n-th is.
IsLeastPower(identity, t, current, k, n) ==
    IF k = n THEN current = identity
    ELSE IF current = identity THEN FALSE
    ELSE IsLeastPower(identity, t, transformation_compose(current, t), k + 1, n)

\* C23: naive_transformation_order(identity, T) returns, for a transformation T of
\* finite order, the least k >= 1 such that T composed with itself k times is the
\* identity, and 1 when T is the identity.
C23_OrderIsTheLeastPower ==
    OrderCounted =>
        LET identity == identity_transformation(KPuzzleOf(probe.kpuzzle))
        IN  /\ probe.out >= 1
            /\ IsLeastPower(identity, probe.transformation, probe.transformation, 1,
                            probe.out)
            /\ (probe.transformation = identity) => probe.out = 1

\* An alg of two moves whose transformation has an order above 4.
C23_Witness ==
    /\ OrderCounted
    /\ Len(probe.alg) = 2
    /\ probe.out > 4

(***************************************************************************)
(* CoordEP::coordinate_for_pattern called on its own, on patterns whose     *)
(* wings are a permutation of the 24 wing positions.                        *)
(***************************************************************************)
\* Most swaps of two wings a sampled permutation is made of.
MaxSwaps == 2

\* Longest alg a sampled permutation is the pattern of.
MaxParityAlg == 2

\* The swaps: two neighbouring wing positions.
WingSwaps == {<<i, i + 1>> : i \in 0..(NUM_4X4X4_EDGES - 2)}

RECURSIVE SwapWings(_, _)
\* The pattern after the swaps, one after the other.
SwapWings(p, swaps) ==
    IF swaps = <<>> THEN p
    ELSE LET i == Head(swaps)[1] + 1
             j == Head(swaps)[2] + 1
         IN  SwapWings([p EXCEPT !.pieces = [p.pieces EXCEPT ![i] = p.pieces[j],
                                                               ![j] = p.pieces[i]]],
                       Tail(swaps))

\* The patterns of the calls: the solved pattern after some swaps of wings, and the
\* patterns of short algs.
ParitySwapLists == ListsUpTo(WingSwaps, MaxSwaps)

ParityAlgs ==
    ListsUpTo({Mv(q, a) : q \in {"U", "Uw", "R", "Rw", "F", "Fw"}, a \in {1, 2}}, MaxParityAlg)

RECURSIVE CycleMarks(_, _, _)
\* The positions the inner while loop marks from j on, in order.
CycleMarks(p, j, bits) ==
    IF j \in bits THEN <<>>
    ELSE <<j>> \o CycleMarks(p, get_piece_or_permutation(p, WINGS, j), bits \cup {j})

RECURSIVE CoordEPMarks(_, _, _)
\* The positions CoordEP::coordinate_for_pattern marks in bits, in order.
CoordEPMarks(p, idx, bits) ==
    IF idx = NUM_4X4X4_EDGES THEN <<>>
    ELSE IF idx \in bits THEN CoordEPMarks(p, idx + 1, bits)
    ELSE LET c == CycleFrom(p, idx, bits, 0)
         IN  CycleMarks(p, idx, bits) \o CoordEPMarks(p, idx + 1, c.bits)

\* coord_ep.coordinate_for_pattern(pattern)
CallCoordEP ==
    /\ probe = NoCall
    /\ \/ \E swaps \in ParitySwapLists :
             LET p == SwapWings(default_pattern(cube4x4x4_kpuzzle), swaps)
             IN  probe' = [fn |-> "CoordEP::coordinate_for_pattern", pattern |-> p,
                           swaps |-> Len(swaps), alg |-> <<>>,
                           marks |-> CoordEPMarks(p, 0, {}),
                           out |-> CoordEP_coordinate_for_pattern(p)]
       \/ \E alg \in ParityAlgs :
             LET p == apply_alg(cube4x4x4_kpuzzle, default_pattern(cube4x4x4_kpuzzle), alg)
             IN  probe' = [fn |-> "CoordEP::coordinate_for_pattern", pattern |-> p,
                           swaps |-> 0 - 1, alg |-> alg,
                           marks |-> CoordEPMarks(p, 0, {}),
                           out |-> CoordEP_coordinate_for_pattern(p)]
    /\ UNCHANGED <<search_vars, driver_vars>>

CoordEPCalled == probe.fn = "CoordEP::coordinate_for_pattern"

\* The wings of the pattern of the call.
CalledWings == SubSeq(probe.pattern.pieces, 1, NUM_4X4X4_EDGES)

\* C27: CoordEP.coordinate_for_pattern returns the parity of the wings permutation:
\* 0 when it is even (in particular for the identity) and 1 when it is odd; its cycle
\* walk ends having marked each position exactly once, and the value agrees with the
\* basic_parity test of the phase-2 acceptance predicate.
C27_CoordEPIsTheWingParity ==
    CoordEPCalled =>
        /\ probe.out \in {0, 1}
        /\ (probe.out = 0) <=> (basic_parity(CalledWings) = "Even")
        /\ probe.swaps >= 0 => probe.out = probe.swaps % 2
        /\ probe.pattern = default_pattern(cube4x4x4_kpuzzle) => probe.out = 0
        /\ Len(probe.marks) = NUM_4X4X4_EDGES
        /\ {probe.marks[k] : k \in 1..Len(probe.marks)} = 0..(NUM_4X4X4_EDGES - 1)

\* An odd permutation that is the pattern of an alg of two moves.
C27_Witness ==
    /\ CoordEPCalled
    /\ Len(probe.alg) = 2
    /\ probe.out = 1

(***************************************************************************)
(* Phase2AdditionalSolutionCondition::should_accept_solution called on its  *)
(* own: a cached full pattern and a candidate alg.                          *)
(***************************************************************************)
\* Most pairs of wings swapped in a cached pattern.
MaxFlips == 2

\* Longest candidate alg of a call.
MaxCandidateAlg == 1

\* The two positions of every high/low pair.
PairSwaps ==
    {<<i, j>> \in (0..(NUM_4X4X4_EDGES - 1)) \X (0..(NUM_4X4X4_EDGES - 1)) :
        i < j /\ EDGE_TO_INDEX[i + 1] = EDGE_TO_INDEX[j + 1]}

\* The cached patterns of the calls: the solved pattern with the wings of some pairs
\* swapped in place.
CachedPatterns ==
    {SwapWings(default_pattern(cube4x4x4_kpuzzle), swaps) :
        swaps \in ListsUpTo(PairSwaps, MaxFlips)}

CandidateAlgs ==
    ListsUpTo({Mv("U", 1), Mv("Uw", 2), Mv("R", 1), Mv("F", 2)}, MaxCandidateAlg)

\* condition.should_accept_solution(candidate_pattern, candidate_alg), twice over:
\* the second call follows the first on the same condition.
CallShouldAcceptSolution ==
    /\ probe = NoCall
    /\ \E full \in CachedPatterns, candidate_alg \in CandidateAlgs :
          LET self == Phase2AdditionalSolutionCondition(cube4x4x4_kpuzzle, full)
              candidate_pattern == cube4x4x4_phase2_target_pattern
          IN  probe' = [fn |-> "should_accept_solution",
                        phase2_search_full_pattern |-> full,
                        candidate_alg |-> candidate_alg,
                        out |-> should_accept_solution(self, candidate_pattern,
                                                       candidate_alg)]
    /\ UNCHANGED <<search_vars, driver_vars>>

SolutionChecked == probe.fn = "should_accept_solution"

\* The cached pattern with the candidate alg applied.
PatternWithAlgApplied ==
    apply_transformation(probe.phase2_search_full_pattern,
                         transformation_from_alg(cube4x4x4_kpuzzle, probe.candidate_alg))

\* The orientation of the wing at a position: Oriented when piece and position are
\* both high or both low.
WingOrientation(p, position) ==
    IF is_high(get_piece_or_permutation(p, WINGS, position)) = is_high(position)
    THEN "Oriented" ELSE "Misoriented"

\* The positions of the wings assigned to the pair with the given index.
WingsOfPair(p, pair) ==
    {position \in 0..(NUM_4X4X4_EDGES - 1) :
        EDGE_TO_INDEX[get_piece_or_permutation(p, WINGS, position) + 1] = pair}

\* The four conditions of the acceptance predicate, over all 24 wings.
AcceptedOverAllWings(p) ==
    /\ is_solve_center_center_case(
           << <<SideCenter(p, 4), SideCenter(p, 5), SideCenter(p, 6), SideCenter(p, 7)>>,
              <<SideCenter(p, 12), SideCenter(p, 13), SideCenter(p, 14), SideCenter(p, 15)>> >>)
    /\ CoordEP_coordinate_for_pattern(p) = 0
    /\ \A pair \in 0..(NUM_4X4X4_EDGES - 1) :
          \A a \in WingsOfPair(p, pair), b \in WingsOfPair(p, pair) :
              WingOrientation(p, a) = WingOrientation(p, b)
    /\ Cardinality({position \in 0..(NUM_4X4X4_EDGES - 1) :
                       WingOrientation(p, position) = "Misoriented"}) % 4 = 0

CallInit ==
    /\ SearchOff
    /\ DriverOff
    /\ CallOff

CallNext ==
    \/ CallSearchGeneratorsTryNew
    \/ CallSearchGeneratorsTryNewRandomStart
    \/ CallIDFSearchTryNew
    \/ CallCanonicalizeCenterAmount
    \/ CallNaiveTransformationOrder
    \/ CallCoordEP
    \/ CallShouldAcceptSolution
    \/ CallCanonicalFSMWalk
    \/ CallSolve3x3x3Pattern
    \/ CallSearch
    \/ CallFillmovetableStart
    \/ CallFillmovetableRow
    \/ CallFillmovetableEnd
    \/ CallReturn

CallSpec == CallInit /\ [][CallNext]_vars

(***************************************************************************)
(* Phase2SymmCoords::init_choose_tables run on its own, one iteration of    *)
(* its loops at a time.  A table entry t[i] of the code is t[i + 1] here.   *)
(***************************************************************************)
\* One iteration of "for i in 0..128" without the write of the complement's entry.
pack84_iteration_no_complement(table, i, at) ==
    IF bitcount(i) = 4 THEN [table EXCEPT ![i + 1] = at] ELSE table

\* One iteration of "for i in 0..128": the table after it.
pack84_iteration(table, i, at) ==
    IF bitcount(i) = 4 THEN [table EXCEPT ![i + 1] = at, ![(255 - i) + 1] = at] ELSE table

\* An iteration that stores the number itself in pack168lo, not the distance.
pack168_iteration_lo_absolute(hi, lo, i, at) ==
    LET hi1 == IF hi[(i \div 256) + 1] < 0 THEN [hi EXCEPT ![(i \div 256) + 1] = at] ELSE hi
        lo1 == IF lo[(i % 256) + 1] < 0 THEN [lo EXCEPT ![(i % 256) + 1] = at] ELSE lo
    IN  [pack168hi |-> hi1, pack168lo |-> lo1]

\* One iteration of "for i in 0..0x10000" for an i with 8 bits set: the two tables
\* after it.
pack168_iteration(hi, lo, i, at) ==
    LET hi1 == IF hi[(i \div 256) + 1] < 0 THEN [hi EXCEPT ![(i \div 256) + 1] = at] ELSE hi
        lo1 == IF lo[(i % 256) + 1] < 0
               THEN [lo EXCEPT ![(i % 256) + 1] = at - hi1[(i \div 256) + 1]]
               ELSE lo
    IN  [pack168hi |-> hi1, pack168lo |-> lo1]

\* The first i from here on with 8 bits set, 0x10000 when there is none: the
\* iterations in between change nothing.  Two such i are at most 256 apart.
NextWith8Bits(i) ==
    CHOOSE j \in i..(IF i + 256 < 65536 THEN i + 256 ELSE 65536) :
        /\ j = 65536 \/ bitcount(j) = 8
        /\ \A k \in i..(j - 1) : bitcount(k) # 8

\* Coord84::default and Coord168::default: every entry 0; at = 0.
InitChooseTablesStart ==
    /\ probe = NoCall
    /\ probe' = [fn |-> "init_choose_tables", loop |-> "pack84", i |-> 0, at |-> 0,
                 pack84 |-> [k \in 1..256 |-> 0],
                 pack168hi |-> [k \in 1..256 |-> 0],
                 pack168lo |-> [k \in 1..256 |-> 0]]
    /\ UNCHANGED <<search_vars, driver_vars>>

InChooseTables(loop) ==
    /\ probe.fn = "init_choose_tables"
    /\ "loop" \in DOMAIN probe
    /\ probe.loop = loop

\* for i in 0..128 { if bitcount(i) == 4 { ...; at += 1 } }
InitChooseTablesPack84 ==
    /\ InChooseTables("pack84")
    /\ probe.i < 128
    /\ probe' = [probe EXCEPT
                    !.pack84 = pack84_iteration(probe.pack84, probe.i, probe.at),
                    !.at = IF bitcount(probe.i) = 4 THEN probe.at + 1 ELSE probe.at,
                    !.i = probe.i + 1]
    /\ UNCHANGED <<search_vars, driver_vars>>

\* for i in 0..256 { pack168hi[i] = -1; pack168lo[i] = -1 }; at = 0
InitChooseTablesReset ==
    /\ InChooseTables("pack84")
    /\ probe.i = 128
    /\ probe' = [probe EXCEPT !.loop = "pack168", !.i = NextWith8Bits(0), !.at = 0,
                              !.pack168hi = [k \in 1..256 |-> 0 - 1],
                              !.pack168lo = [k \in 1..256 |-> 0 - 1]]
    /\ UNCHANGED <<search_vars, driver_vars>>

\* for i in 0..0x10000 { if bitcount(i) == 8 { ...; at += 1 } }, from one i with 8
\* bits set to the next.
InitChooseTablesPack168 ==
    /\ InChooseTables("pack168")
    /\ probe.i < 65536
    /\ LET tables == pack168_iteration(probe.pack168hi, probe.pack168lo, probe.i, probe.at)
       IN  probe' = [probe EXCEPT !.pack168hi = tables.pack168hi,
                                  !.pack168lo = tables.pack168lo,
                                  !.at = probe.at + 1,
                                  !.i = NextWith8Bits(probe.i + 1)]
    /\ UNCHANGED <<search_vars, driver_vars>>

InitChooseTablesEnd ==
    /\ InChooseTables("pack168")
    /\ probe.i = 65536
    /\ probe' = [fn |-> "init_choose_tables",
                 out |-> [pack84 |-> probe.pack84, pack168hi |-> probe.pack168hi,
                          pack168lo |-> probe.pack168lo]]
    /\ UNCHANGED <<search_vars, driver_vars>>

ChooseNext ==
    \/ InitChooseTablesStart
    \/ InitChooseTablesPack84
    \/ InitChooseTablesReset
    \/ InitChooseTablesPack168
    \/ InitChooseTablesEnd
    \/ CallReturn

ChooseSpec == CallInit /\ [][ChooseNext]_vars

\* init_choose_tables has returned.
ChooseTablesBuilt == probe.fn = "init_choose_tables" /\ "out" \in DOMAIN probe

\* The patterns of the given width with exactly k bits set.
PatternsWithBits(width, k) == {b \in 0..((2 ^ width) - 1) : bitcount(b) = k}

\* C25: after init_choose_tables, pack84 maps every 8-bit pattern with exactly four
\* bits set to a coordinate in [0, 35), gives a pattern and its complement the same
\* coordinate, and gives different coordinates to two such patterns that are neither
\* equal nor complements, so each of the 35 values is used by one complement pair.
C25_Pack84NumbersComplementPairs ==
    ChooseTablesBuilt =>
        LET FourOfEight == PatternsWithBits(8, 4)
        IN  /\ \A b \in FourOfEight :
                  /\ probe.out.pack84[b + 1] \in 0..34
                  /\ probe.out.pack84[(255 - b) + 1] = probe.out.pack84[b + 1]
            /\ \A a \in FourOfEight, b \in FourOfEight :
                  (a # b /\ a # 255 - b) => probe.out.pack84[a + 1] # probe.out.pack84[b + 1]
            /\ \A v \in 0..34 :
                  Cardinality({b \in FourOfEight : probe.out.pack84[b + 1] = v}) = 2
            /\ probe.out.pack84 = pack84

\* The tables are built and hold more than one coordinate.
C25_Witness ==
    /\ ChooseTablesBuilt
    /\ probe.out.pack84[16] = 0
    /\ probe.out.pack84[241] = 0
    /\ probe.out.pack84[121] = 34

\* pack168hi[b >> 8] + pack168lo[b & 255] of the built tables.
Pack168Sum(b) == probe.out.pack168hi[(b \div 256) + 1] + probe.out.pack168lo[(b % 256) + 1]

\* C26: after init_choose_tables, for every 16-bit pattern b with exactly eight bits
\* set, pack168hi[b >> 8] + pack168lo[b & 255] is the rank of b among those patterns
\* in increasing order (0 for the least, one more from each to the next): the sum
\* lies in [0, 12870), maps the patterns one to one onto that range, and no entry
\* used for such a pattern is left at -1.
C26_Pack168SumIsTheRank ==
    ChooseTablesBuilt =>
        LET EightOfSixteen == PatternsWithBits(16, 8)
        IN  /\ Pack168Sum(255) = 0
            /\ \A b \in EightOfSixteen :
                  /\ probe.out.pack168hi[(b \div 256) + 1] >= 0
                  /\ probe.out.pack168lo[(b % 256) + 1] >= 0
                  /\ Pack168Sum(b) \in 0..12869
                  /\ LET next == NextWith8Bits(b + 1)
                     IN  next < 65536 => Pack168Sum(next) = Pack168Sum(b) + 1
            /\ {Pack168Sum(b) : b \in EightOfSixteen} = 0..12869
            /\ Cardinality(EightOfSixteen) = 12870
            /\ probe.out.pack168hi = pack168hi
            /\ probe.out.pack168lo = pack168lo

\* The tables are built; the last pattern, 0xFF00, has the last rank, and both of
\* its entries were written by earlier iterations of other patterns.
C26_Witness ==
    /\ ChooseTablesBuilt
    /\ Pack168Sum(65280) = 12869
    /\ probe.out.pack168lo[1] = 0
    /\ probe.out.pack168hi[256] = 12869
====
